---- MODULE Spec2Model ----
(***************************************************************************)
(* The crawl-frontier engine of src/backend/scraper.py: the Redis lists    *)
(* word_queue, proxy_queue and proxy_failed, the Mongo collection, and the *)
(* worker processes that pop a word, fetch it through a sticky proxy with  *)
(* retry/backoff/rotation, parse, insert and expand the frontier.          *)
(*                                                                         *)
(* Every Redis or Mongo command is one atomic step of the worker that      *)
(* issues it; the local computation that follows a command up to the next  *)
(* command belongs to the same step.  A failing command raises before it   *)
(* takes effect.  Strings are sequences of one-character strings.          *)
(***************************************************************************)
EXTENDS Integers, Sequences, FiniteSets, TLC

\* ------------------------------------------------------------------ bounds
NumProxies == 2
MaxQueue == 4
MaxStore == 2
MaxEmpty == 5
MaxCount == 4
MaxLines == 2

\* ------------------------------------------------------- program constants
MAX_PROXY_FAILURES == 3
max_retries == 3
max_empty_before_longer_sleep == 5
SkipPercent == 3
GiveUpPercent == 70
RateLimitMin == 10

\* the worker processes a deployment may start: one of them, or both
Workers == {1, 2}
\* the lines of a proxy file in the documented format host:port:user:password
ProxyFile == IF NumProxies >= 3
             THEN <<"h1:8080:u:w", "h2:8080:u:w", "h3:8080:u:w">>
             ELSE IF NumProxies = 2 THEN <<"h1:8080:u:w", "h2:8080:u:w">>
             ELSE IF NumProxies = 1 THEN <<"h1:8080:u:w">> ELSE <<>>
\* a proxy file whose lines lack fields: the bootstrap loads every line
\* that is neither blank nor a comment
ShortFile == <<"h1:8080", "h1:8080:u">>
Proxies == {"h1:8080:u:w", "h2:8080:u:w", "h3:8080:u:w",
            "h1:8080", "h1:8080:u"}
None == "None"

\* ----------------------------------------------------------------- strings
LowerLetters == {"a", "d", "f", "g", "h", "j", "l", "o", "p", "u", "y"}
UpperLetters == {"G"}
Digits == {"2"}
Whitespace == {" "}

ToLowerChar(c) == IF c = "G" THEN "g" ELSE c

IsAlphaChar(c) == c \in LowerLetters \cup UpperLetters

\* str.lower()
lower(s) == [i \in 1..Len(s) |-> ToLowerChar(s[i])]

RECURSIVE lstrip(_)
lstrip(s) == IF s # <<>> /\ Head(s) \in Whitespace THEN lstrip(Tail(s)) ELSE s

RECURSIVE rstrip(_)
rstrip(s) == IF s # <<>> /\ s[Len(s)] \in Whitespace
             THEN rstrip(SubSeq(s, 1, Len(s) - 1)) ELSE s

\* str.strip()
strip(s) == rstrip(lstrip(s))

\* str.replace(a, b) for one-character a and b
replace(s, a, b) == [i \in 1..Len(s) |-> IF s[i] = a THEN b ELSE s[i]]

\* str.replace(a, "") for a one-character a
remove(s, a) == SelectSeq(s, LAMBDA c : c # a)

\* str.isalpha()
isalpha(s) == s # <<>> /\ \A i \in 1..Len(s) : IsAlphaChar(s[i])

Range(s) == {s[i] : i \in 1..Len(s)}

\* ------------------------------------------------------------------- words
happy == <<"h", "a", "p", "p", "y">>
glad == <<"g", "l", "a", "d">>
joyful == <<"j", "o", "y", "f", "u", "l">>
\* a line of the word list as load_queue.py pushes it: stripped, case kept
Glad == <<"G", "l", "a", "d">>
NoWord == <<>>

\* ------------------------------------------------------- the remote site
\* A fetched document is the sequence of its senses; each sense carries its
\* part of speech and definition as parse_lemma extracts them, and the raw
\* texts of its synonym spans.  Pages is what a fetch may return.
PageHappy == << [pos |-> "adjective", def |-> "feeling joy",
                 spans |-> <<glad, joyful>>] >>
PageNone == <<>>
PageSuffix == << [pos |-> "suffix", def |-> "d",
                  spans |-> << <<"-", "a", "d">> >>] >>
PageMixed == << [pos |-> "noun", def |-> "no definition",
                 spans |-> << <<" ", "G", "l", "a", "d">>, glad, <<"a">> >>],
                [pos |-> "unknown", def |-> "d",
                 spans |-> << happy, <<"-", "a", "d">>, <<"a", "2">> >>] >>
Pages == {PageHappy, PageNone, PageMixed, PageSuffix}

\* parse_lemma: one lemma per sense, synonyms stripped, blanks to hyphens,
\* empty spans left out
SpanSynonyms(spans) ==
    LET kept == SelectSeq(spans, LAMBDA t : strip(t) # <<>>)
    IN  [i \in 1..Len(kept) |-> replace(strip(kept[i]), " ", "-")]

parse_lemma(word, soup) ==
    [i \in 1..Len(soup) |->
        [term |-> word, part_of_speech |-> soup[i].pos,
         definition |-> soup[i].def, synonyms |-> SpanSynonyms(soup[i].spans)]]

\* ------------------------------------------------- persistence and dedup
\* safe_insert_lemma over a collection that keeps one document per Entry
safe_insert_lemma_merge(collection, lemma, err) ==
    IF err THEN [ok |-> FALSE, collection |-> collection]
    ELSE IF lemma \in Range(collection)
    THEN [ok |-> TRUE, collection |-> collection]
    ELSE [ok |-> TRUE, collection |-> Append(collection, lemma)]

\* safe_insert_lemma over a collection keyed by term: the document of the
\* term is replaced
safe_insert_lemma_upsert(collection, lemma, err) ==
    IF err THEN [ok |-> FALSE, collection |-> collection]
    ELSE IF \E i \in 1..Len(collection) : collection[i].term = lemma.term
    THEN [ok |-> TRUE,
          collection |-> [i \in 1..Len(collection) |->
                            IF collection[i].term = lemma.term THEN lemma
                            ELSE collection[i]]]
    ELSE [ok |-> TRUE, collection |-> Append(collection, lemma)]

\* safe_insert_lemma: insert_one appends the document; an error is caught
\* and reported as False
safe_insert_lemma(collection, lemma, err) ==
    IF err THEN [ok |-> FALSE, collection |-> collection]
    ELSE [ok |-> TRUE, collection |-> Append(collection, lemma)]

\* check_word_exists_in_mongo with a failing query counted as "absent"
check_word_exists_in_mongo_open(collection, word, err) ==
    IF err THEN FALSE
    ELSE \E i \in 1..Len(collection) : collection[i].term = strip(lower(word))

\* check_word_exists_in_mongo: exact match on the cleaned word; a failing
\* query counts as "exists"
check_word_exists_in_mongo(collection, word, err) ==
    IF err THEN TRUE
    ELSE \E i \in 1..Len(collection) : collection[i].term = strip(lower(word))

\* the snapshot that is never taken: the empty set
get_redis_queue_words_none(queue, err) == {}

\* get_redis_queue_words: the set of the queue's items, empty on error
get_redis_queue_words(queue, err) == IF err THEN {} ELSE Range(queue)

\* ------------------------------------------------------ frontier expander
clean_synonym(synonym) == replace(strip(lower(synonym)), "-", " ")

\* the negation of the skip condition of the synonym loop
ValidSynonym(clean) ==
    ~ (\/ clean = <<>>
       \/ Len(clean) < 2
       \/ ~ isalpha(remove(remove(clean, " "), "-")))

\* what the loop does with a synonym before it asks the store
LocalVerdict(synonym, queue_words) ==
    IF ~ ValidSynonym(clean_synonym(synonym)) THEN "invalid"
    ELSE IF clean_synonym(synonym) \in queue_words THEN "inqueue"
    ELSE "ask"

\* run the loop from synonym i up to the next one that needs the store
RECURSIVE Scan(_, _, _, _)
Scan(synonyms, i, queue_words, res) ==
    IF i > Len(synonyms) THEN [si |-> i, res |-> res]
    ELSE IF LocalVerdict(synonyms[i], queue_words) = "ask"
         THEN [si |-> i, res |-> res]
         ELSE Scan(synonyms, i + 1, queue_words,
                   Append(res, LocalVerdict(synonyms[i], queue_words)))

\* ---------------------------------------------------- proxy pool manager
\* the opening test keeping only a proxy that never failed
StickyUsable_fresh(proxy, count) == proxy # None /\ count = 0

\* the test that opens get_working_proxy
StickyUsable(proxy, count) == proxy # None /\ count < MAX_PROXY_FAILURES

\* mark_proxy_failed without the reset of the counter after the push
mark_proxy_failed_counting(proxy, count, scraper, failed, err) ==
    IF proxy = None
    THEN [current_proxy |-> proxy, proxy_failure_count |-> count,
          scraper_instance |-> scraper, proxy_failed |-> failed]
    ELSE IF count + 1 >= MAX_PROXY_FAILURES /\ ~ err
    THEN [current_proxy |-> None, proxy_failure_count |-> count + 1,
          scraper_instance |-> None, proxy_failed |-> Append(failed, proxy)]
    ELSE [current_proxy |-> proxy, proxy_failure_count |-> count + 1,
          scraper_instance |-> scraper, proxy_failed |-> failed]

\* mark_proxy_failed without the reset of current_proxy after the push
mark_proxy_failed_keep(proxy, count, scraper, failed, err) ==
    IF proxy = None
    THEN [current_proxy |-> proxy, proxy_failure_count |-> count,
          scraper_instance |-> scraper, proxy_failed |-> failed]
    ELSE IF count + 1 >= MAX_PROXY_FAILURES /\ ~ err
    THEN [current_proxy |-> proxy, proxy_failure_count |-> 0,
          scraper_instance |-> None, proxy_failed |-> Append(failed, proxy)]
    ELSE [current_proxy |-> proxy, proxy_failure_count |-> count + 1,
          scraper_instance |-> scraper, proxy_failed |-> failed]

\* mark_proxy_failed on the globals (proxy, count, scraper) and the
\* quarantine list; err: the rpush raises
mark_proxy_failed(proxy, count, scraper, failed, err) ==
    IF proxy = None
    THEN [current_proxy |-> proxy, proxy_failure_count |-> count,
          scraper_instance |-> scraper, proxy_failed |-> failed]
    ELSE IF count + 1 >= MAX_PROXY_FAILURES /\ ~ err
    THEN [current_proxy |-> None, proxy_failure_count |-> 0,
          scraper_instance |-> None, proxy_failed |-> Append(failed, proxy)]
    ELSE [current_proxy |-> proxy, proxy_failure_count |-> count + 1,
          scraper_instance |-> scraper, proxy_failed |-> failed]

\* the characters of a proxy line
ProxyText(line) ==
    CASE line = "h1:8080:u:w" ->
            <<"h", "1", ":", "8", "0", "8", "0", ":", "u", ":", "w">>
      [] line = "h2:8080:u:w" ->
            <<"h", "2", ":", "8", "0", "8", "0", ":", "u", ":", "w">>
      [] line = "h3:8080:u:w" ->
            <<"h", "3", ":", "8", "0", "8", "0", ":", "u", ":", "w">>
      [] line = "h1:8080:u" ->
            <<"h", "1", ":", "8", "0", "8", "0", ":", "u">>
      [] line = "h1:8080" ->
            <<"h", "1", ":", "8", "0", "8", "0">>

\* str.split(sep) for a one-character sep
RECURSIVE split(_, _)
split(s, sep) ==
    IF \E i \in 1..Len(s) : s[i] = sep
    THEN LET i == CHOOSE k \in 1..Len(s) :
                      s[k] = sep /\ \A j \in 1..(k - 1) : s[j] # sep
         IN  <<SubSeq(s, 1, i - 1)>> \o split(SubSeq(s, i + 1, Len(s)), sep)
    ELSE <<s>>

\* parts = proxy_url.split(':') (line 205), for each line of the files
parts == [line \in Proxies |-> split(ProxyText(line), ":")]

\* create_proxy_scraper after get_working_proxy returned proxy_url: the
\* cached scraper is kept when the proxy "has not changed".  The value is
\* the client's proxy setting: the line whose host, port, user and password
\* it was given, or "direct" for a client without proxies.  A line of fewer
\* than four fields leaves the new client without proxies (lines 222-224).
\* raises: how many calls of cloudscraper.create_scraper() raise, from this
\* one on.  When the call of line 198 raises, the handler calls it again
\* (line 229) for a client without proxies; when that call raises too, the
\* exception leaves create_proxy_scraper and the global is as it was.
create_proxy_scraper(scraper, proxy_url, proxy, raises) ==
    IF scraper # None /\ proxy_url = proxy
    THEN [raised |-> FALSE, scraper_instance |-> scraper]
    ELSE IF raises >= 2
    THEN [raised |-> TRUE, scraper_instance |-> scraper]
    ELSE IF raises = 1
    THEN [raised |-> FALSE, scraper_instance |-> "direct"]
    ELSE IF proxy_url = None
    THEN [raised |-> FALSE, scraper_instance |-> "direct"]
    ELSE IF Len(parts[proxy_url]) >= 4
    THEN [raised |-> FALSE, scraper_instance |-> proxy_url]
    ELSE [raised |-> FALSE, scraper_instance |-> "direct"]

\* get_proxy_stats without its except clause's answer: the lengths always
get_proxy_stats_raw(active, failed, err) == <<Len(active), Len(failed)>>

\* get_proxy_stats
get_proxy_stats(active, failed, err) ==
    IF err THEN <<0, 0>> ELSE <<Len(active), Len(failed)>>

\* ------------------------------------------------------ fetch policy
\* The outcome of one scraper.get: an HTTP status, or an exception named
\* by what its message contains.
Status(c) == [code |-> c, exc |-> "-"]
Raised(e) == [code |-> 0, exc |-> e]
Outcomes == {Status(200), Status(429), Status(503), Status(403), Status(404),
             Status(500), Raised("ProxyError"), Raised("ConnectionError"),
             Raised("Timeout")}

\* the branches with 503 handled as a rate limit: no mark_proxy_failed
Branch_503rate(o) ==
    IF o.exc # "-"
    THEN IF o.exc \in {"ProxyError", "ConnectionError"} THEN "exc_proxy" ELSE "exc"
    ELSE IF o.code = 200 THEN "ok"
    ELSE IF o.code \in {429, 503} THEN "rate"
    ELSE IF o.code \in {407, 502, 504} THEN "proxy"
    ELSE IF o.code = 403 THEN "forbidden"
    ELSE "other"

\* the branches with 429 handled as a proxy error: mark_proxy_failed is called
Branch_429proxy(o) ==
    IF o.exc # "-"
    THEN IF o.exc \in {"ProxyError", "ConnectionError"} THEN "exc_proxy" ELSE "exc"
    ELSE IF o.code = 200 THEN "ok"
    ELSE IF o.code \in {429, 407, 502, 503, 504} THEN "proxy"
    ELSE IF o.code = 403 THEN "forbidden"
    ELSE "other"

\* the branches with the other statuses retried like a rate limit
Branch_otherRetry(o) ==
    IF o.exc # "-"
    THEN IF o.exc \in {"ProxyError", "ConnectionError"} THEN "exc_proxy" ELSE "exc"
    ELSE IF o.code = 200 THEN "ok"
    ELSE IF o.code \in {407, 502, 503, 504} THEN "proxy"
    ELSE IF o.code = 403 THEN "forbidden"
    ELSE "rate"

\* the branches with every exception taken for a proxy failure
Branch_excAll(o) ==
    IF o.exc # "-" THEN "exc_proxy"
    ELSE IF o.code = 200 THEN "ok"
    ELSE IF o.code = 429 THEN "rate"
    ELSE IF o.code \in {407, 502, 503, 504} THEN "proxy"
    ELSE IF o.code = 403 THEN "forbidden"
    ELSE "other"

\* the branch of fetch_html_with_backoff an outcome takes
Branch(o) ==
    IF o.exc # "-"
    THEN IF o.exc \in {"ProxyError", "ConnectionError"} THEN "exc_proxy" ELSE "exc"
    ELSE IF o.code = 200 THEN "ok"
    ELSE IF o.code = 429 THEN "rate"
    ELSE IF o.code \in {407, 502, 503, 504} THEN "proxy"
    ELSE IF o.code = 403 THEN "forbidden"
    ELSE "other"

\* the backoff of src/worker.py, 2 ** attempt + uniform(0, 1), on every branch
MinWait_exp(o, attempt) == 2 ^ attempt

\* The least time the sleep of a branch can take: the lower end of its
\* random.uniform ranges; 0 where the branch does not sleep.
MinWait(o, attempt) ==
    CASE Branch(o) = "rate" -> RateLimitMin + attempt * 5
      [] Branch(o) = "proxy" -> 5
      [] Branch(o) = "forbidden" -> 20
      [] Branch(o) \in {"exc_proxy", "exc"} ->
            IF attempt < max_retries - 1 THEN 3 + attempt * 2 ELSE 0
      [] OTHER -> 0

\* random.random() in percent, one draw per range of interest
RandomPercents == {1, 50, 90}
\* the skip that is never drawn: a probability of 0
should_randomly_skip_word_never(rnd) == FALSE
should_randomly_skip_word(rnd) == rnd < SkipPercent
\* the draw that never gives up: every failed word is pushed again
GiveUp_never(rnd) == FALSE
GiveUp(rnd) == rnd < GiveUpPercent

\* ------------------------------------------------------------------- state
VARIABLES
    word_queue,           \* Redis list word_queue
    proxy_queue,          \* Redis list proxy_queue (active pool)
    proxy_failed,         \* Redis list proxy_failed (quarantine pool)
    store,                \* Mongo collection lemmas.entries, in insertion order
    current_proxy,        \* per worker: global current_proxy
    proxy_failure_count,  \* per worker: global proxy_failure_count
    scraper_instance,     \* per worker: global scraper_instance (its proxy setting)
    consecutive_empty,    \* per worker: main's consecutive_empty
    running,              \* per worker: the process runs
    mongo_open,           \* per worker: global mongo, the client is open
    loc,                  \* per worker: control point and locals of the iteration
    hist,                 \* per worker: what the current or last iteration did
    sticky_failures,      \* per worker: mark_proxy_failed calls on the sticky proxy
    cfg                   \* the deployment and its environment

vars == <<word_queue, proxy_queue, proxy_failed, store, current_proxy,
          proxy_failure_count, scraper_instance, consecutive_empty, running,
          mongo_open,
          loc, hist, sticky_failures, cfg>>

shared == <<word_queue, proxy_queue, proxy_failed, store>>
globals == <<current_proxy, proxy_failure_count, scraper_instance>>
process == <<running, mongo_open>>
sticky == <<sticky_failures>>

IdleLoc ==
    [pc |-> "pop", word |-> NoWord, attempt |-> 0, scraper |-> None,
     ret |-> "-", proxy_url |-> None, recycling |-> <<>>,
     failed_proxy |-> None, lemmas |-> <<>>, li |-> 0, available |-> 0,
     queue_words |-> {}, si |-> 0, words_to_add |-> <<>>, res |-> <<>>]

NoStart == [queue |-> <<>>, store |-> <<>>]

NoHist ==
    [from |-> NoStart, word |-> NoWord, outcomes |-> <<>>, waits |-> <<>>, mf |-> 0,
     raised |-> FALSE, fetched |-> "-", lemmas |-> <<>>, persisted |-> 0,
     pushed |-> <<>>, sleep |-> "-", stats |-> <<>>, quarantined |-> None,
     recycled |-> 0]

\* whether a Redis or Mongo command may raise
Faults == IF cfg.faults THEN {FALSE, TRUE} ELSE {FALSE}

\* how many calls of cloudscraper.create_scraper() in a row may raise
ClientFaults == IF cfg.client_faults THEN 0..2 ELSE {0}

\* whether a Mongo command of w may raise: a client that was closed either
\* reconnects or refuses, as the installed driver has it
StoreFaults(w) ==
    IF cfg.faults \/ ~ mongo_open[w] THEN {FALSE, TRUE} ELSE {FALSE}

\* The deployments explored.  Each is a started set of workers, whether the
\* stores may raise, the seed of word_queue, the collection's content, the
\* bootstrapped proxy_queue, and what the site may answer.
Profile(ws, f, seed, st, px, os, ps) ==
    [workers |-> ws, faults |-> f, client_faults |-> FALSE,
     seed |-> seed, store |-> st, proxies |-> px, outcomes |-> os,
     pages |-> ps]

\* one worker, every outcome of a fetch, a site without entries
FetchProfile ==
    Profile({1}, FALSE, <<happy>>, <<>>, ProxyFile, Outcomes, {PageNone})
\* one worker, a rate-limiting site with entries
CrawlProfile ==
    Profile({1}, FALSE, <<happy>>, <<>>, ProxyFile,
            {Status(200), Status(429)}, {PageHappy, PageMixed})
\* one worker, Redis and Mongo commands that may raise
FaultProfile ==
    Profile({1}, TRUE, <<happy>>, <<>>, ProxyFile,
            {Status(200), Status(503)}, {PageHappy, PageNone})
\* all workers on the proxy pools
PoolProfile ==
    Profile(Workers, FALSE, <<happy, happy>>, <<>>, SubSeq(ProxyFile, 1, 1),
            {Status(200), Status(503)}, {PageNone})
\* all workers expanding the frontier, no proxy file
ExpandProfile ==
    Profile(Workers, FALSE, <<happy, happy>>, <<>>, <<>>,
            {Status(200)}, {PageHappy})
\* one worker, a word list whose second line is capitalised
SeedProfile ==
    Profile({1}, FALSE, <<happy, Glad>>, <<>>, <<>>,
            {Status(200)}, {PageHappy})
\* one worker without proxies, stores that may raise, a page of two senses
BatchProfile ==
    Profile({1}, TRUE, <<happy>>, <<>>, <<>>, {Status(200)}, {PageMixed})
\* one worker on a proxy file whose lines lack fields
ShortLineProfile ==
    Profile({1}, FALSE, <<happy>>, <<>>, ShortFile,
            {Status(200), Status(429), Status(503)}, {PageNone})
\* one worker whose client library may fail to make a client
ClientProfile ==
    [Profile({1}, FALSE, <<happy>>, <<>>, ProxyFile,
             {Status(200), Status(429), Status(503), Status(403),
              Raised("ProxyError")}, {PageNone})
        EXCEPT !.client_faults = TRUE]

Profiles ==
    {FetchProfile, CrawlProfile, FaultProfile, PoolProfile, ExpandProfile,
     SeedProfile, BatchProfile, ShortLineProfile, ClientProfile}

InitOf(c) ==
    /\ cfg = c
    /\ word_queue = cfg.seed
    /\ proxy_queue = cfg.proxies
    /\ proxy_failed = <<>>
    /\ store = cfg.store
    /\ current_proxy = [w \in Workers |-> None]
    /\ proxy_failure_count = [w \in Workers |-> 0]
    /\ scraper_instance = [w \in Workers |-> None]
    /\ consecutive_empty = [w \in Workers |-> 0]
    /\ running = [w \in Workers |-> w \in cfg.workers]
    /\ mongo_open = [w \in Workers |-> w \in cfg.workers]
    /\ loc = [w \in Workers |-> IF w \in cfg.workers THEN IdleLoc
                                ELSE [IdleLoc EXCEPT !.pc = "exited"]]
    /\ hist = [w \in Workers |-> NoHist]
    /\ sticky_failures = [w \in Workers |-> 0]

Init == \E c \in Profiles : InitOf(c)

At(w, pc) == running[w] /\ loc[w].pc = pc

\* what an iteration started from: the queue and the collection at its pop
Start == [queue |-> word_queue, store |-> store]

\* the iteration of w is over: back to the top of the loop, its locals and
\* what is remembered of it dropped
EndIteration(w) ==
    /\ loc' = [loc EXCEPT ![w] = IdleLoc]
    /\ hist' = [hist EXCEPT ![w] = NoHist]

\* lines 487-490: an exception reached main's handler; the iteration of w
\* is over after the recovery sleep
Recover(w) ==
    /\ loc' = [loc EXCEPT ![w] = IdleLoc]
    /\ hist' = [hist EXCEPT ![w] = [NoHist EXCEPT !.sleep = "recovery"]]

\* the pop made with rpop for lpop: the last word is taken
Pop_rpop(w) ==
    /\ At(w, "pop")
    /\ UNCHANGED <<proxy_queue, proxy_failed, store, globals, process,
                   sticky, cfg>>
    /\ \E err \in Faults :
        IF err
        THEN /\ hist' = [hist EXCEPT ![w] = [NoHist EXCEPT !.sleep = "recovery"]]
             /\ UNCHANGED <<word_queue, consecutive_empty, loc>>
        ELSE IF word_queue = <<>>
        THEN /\ consecutive_empty[w] < MaxEmpty
             /\ consecutive_empty' =
                    [consecutive_empty EXCEPT ![w] = consecutive_empty[w] + 1]
             /\ hist' = [hist EXCEPT ![w] =
                    [NoHist EXCEPT
                        !.sleep = IF consecutive_empty[w] + 1
                                        >= max_empty_before_longer_sleep
                                  THEN "long" ELSE "short"]]
             /\ loc' = [loc EXCEPT ![w].pc =
                    IF consecutive_empty[w] + 1 >= max_empty_before_longer_sleep
                    THEN "stats" ELSE "pop"]
             /\ UNCHANGED word_queue
        ELSE /\ word_queue' = SubSeq(word_queue, 1, Len(word_queue) - 1)
             /\ consecutive_empty' = [consecutive_empty EXCEPT ![w] = 0]
             /\ \E rnd \in RandomPercents :
                 IF should_randomly_skip_word(rnd)
                 THEN /\ hist' = [hist EXCEPT ![w] = NoHist]
                      /\ UNCHANGED loc
                 ELSE /\ hist' = [hist EXCEPT ![w] =
                            [NoHist EXCEPT !.from = Start,
                                           !.word = word_queue[Len(word_queue)]]]
                      /\ loc' = [loc EXCEPT ![w] =
                            [IdleLoc EXCEPT !.pc = "gp", !.ret = "start",
                                            !.word = word_queue[Len(word_queue)]]]

\* the pop made with lindex for lpop: a kept word stays at the head
Pop_peek(w) ==
    /\ At(w, "pop")
    /\ UNCHANGED <<proxy_queue, proxy_failed, store, globals, process,
                   sticky, cfg>>
    /\ \E err \in Faults :
        IF err
        THEN \* the exception reaches main's handler: sleep and go on
             /\ hist' = [hist EXCEPT ![w] = [NoHist EXCEPT !.sleep = "recovery"]]
             /\ UNCHANGED <<word_queue, consecutive_empty, loc>>
        ELSE IF word_queue = <<>>
        THEN /\ consecutive_empty[w] < MaxEmpty
             /\ consecutive_empty' =
                    [consecutive_empty EXCEPT ![w] = consecutive_empty[w] + 1]
             /\ hist' = [hist EXCEPT ![w] =
                    [NoHist EXCEPT
                        !.sleep = IF consecutive_empty[w] + 1
                                        >= max_empty_before_longer_sleep
                                  THEN "long" ELSE "short"]]
             /\ loc' = [loc EXCEPT ![w].pc =
                    IF consecutive_empty[w] + 1 >= max_empty_before_longer_sleep
                    THEN "stats" ELSE "pop"]
             /\ UNCHANGED word_queue
        ELSE /\ consecutive_empty' = [consecutive_empty EXCEPT ![w] = 0]
             /\ \E rnd \in RandomPercents :
                 IF should_randomly_skip_word(rnd)
                 THEN /\ word_queue' = Tail(word_queue)
                      /\ hist' = [hist EXCEPT ![w] = NoHist]
                      /\ UNCHANGED loc
                 ELSE /\ UNCHANGED word_queue
                      /\ hist' = [hist EXCEPT ![w] =
                            [NoHist EXCEPT !.from = Start,
                                           !.word = Head(word_queue)]]
                      /\ loc' = [loc EXCEPT ![w] =
                            [IdleLoc EXCEPT !.pc = "gp", !.ret = "start",
                                            !.word = Head(word_queue)]]

\* the pop that puts a skipped word back at the tail
Pop_requeue(w) ==
    /\ At(w, "pop")
    /\ UNCHANGED <<proxy_queue, proxy_failed, store, globals, process,
                   sticky, cfg>>
    /\ \E err \in Faults :
        IF err
        THEN \* the exception reaches main's handler: sleep and go on
             /\ hist' = [hist EXCEPT ![w] = [NoHist EXCEPT !.sleep = "recovery"]]
             /\ UNCHANGED <<word_queue, consecutive_empty, loc>>
        ELSE IF word_queue = <<>>
        THEN /\ consecutive_empty[w] < MaxEmpty
             /\ consecutive_empty' =
                    [consecutive_empty EXCEPT ![w] = consecutive_empty[w] + 1]
             /\ hist' = [hist EXCEPT ![w] =
                    [NoHist EXCEPT
                        !.sleep = IF consecutive_empty[w] + 1
                                        >= max_empty_before_longer_sleep
                                  THEN "long" ELSE "short"]]
             /\ loc' = [loc EXCEPT ![w].pc =
                    IF consecutive_empty[w] + 1 >= max_empty_before_longer_sleep
                    THEN "stats" ELSE "pop"]
             /\ UNCHANGED word_queue
        ELSE /\ consecutive_empty' = [consecutive_empty EXCEPT ![w] = 0]
             /\ \E rnd \in RandomPercents :
                 IF should_randomly_skip_word(rnd)
                 THEN /\ word_queue' = Append(Tail(word_queue), Head(word_queue))
                      /\ hist' = [hist EXCEPT ![w] = NoHist]
                      /\ UNCHANGED loc
                 ELSE /\ word_queue' = Tail(word_queue)
                      /\ hist' = [hist EXCEPT ![w] =
                            [NoHist EXCEPT !.from = Start,
                                           !.word = Head(word_queue)]]
                      /\ loc' = [loc EXCEPT ![w] =
                            [IdleLoc EXCEPT !.pc = "gp", !.ret = "start",
                                            !.word = Head(word_queue)]]

\* the pop with the longer sleep one poll late: > for >=
Pop_late(w) ==
    /\ At(w, "pop")
    /\ UNCHANGED <<proxy_queue, proxy_failed, store, globals, process,
                   sticky, cfg>>
    /\ \E err \in Faults :
        IF err
        THEN \* the exception reaches main's handler: sleep and go on
             /\ hist' = [hist EXCEPT ![w] = [NoHist EXCEPT !.sleep = "recovery"]]
             /\ UNCHANGED <<word_queue, consecutive_empty, loc>>
        ELSE IF word_queue = <<>>
        THEN /\ consecutive_empty[w] < MaxEmpty
             /\ consecutive_empty' =
                    [consecutive_empty EXCEPT ![w] = consecutive_empty[w] + 1]
             /\ hist' = [hist EXCEPT ![w] =
                    [NoHist EXCEPT
                        !.sleep = IF consecutive_empty[w] + 1
                                        > max_empty_before_longer_sleep
                                  THEN "long" ELSE "short"]]
             /\ loc' = [loc EXCEPT ![w].pc =
                    IF consecutive_empty[w] + 1 > max_empty_before_longer_sleep
                    THEN "stats" ELSE "pop"]
             /\ UNCHANGED word_queue
        ELSE /\ word_queue' = Tail(word_queue)
             /\ consecutive_empty' = [consecutive_empty EXCEPT ![w] = 0]
             /\ \E rnd \in RandomPercents :
                 IF should_randomly_skip_word(rnd)
                 THEN /\ hist' = [hist EXCEPT ![w] = NoHist]
                      /\ UNCHANGED loc
                 ELSE /\ hist' = [hist EXCEPT ![w] =
                            [NoHist EXCEPT !.from = Start,
                                           !.word = Head(word_queue)]]
                      /\ loc' = [loc EXCEPT ![w] =
                            [IdleLoc EXCEPT !.pc = "gp", !.ret = "start",
                                            !.word = Head(word_queue)]]

\* ------------------------------------------------------------ main: pop
\* lines 427-450: lpop word_queue, the empty-queue sleeps, the random skip
Pop(w) ==
    /\ At(w, "pop")
    /\ UNCHANGED <<proxy_queue, proxy_failed, store, globals, process,
                   sticky, cfg>>
    /\ \E err \in Faults :
        IF err
        THEN \* the exception reaches main's handler: sleep and go on
             /\ hist' = [hist EXCEPT ![w] = [NoHist EXCEPT !.sleep = "recovery"]]
             /\ UNCHANGED <<word_queue, consecutive_empty, loc>>
        ELSE IF word_queue = <<>>
        THEN /\ consecutive_empty[w] < MaxEmpty
             /\ consecutive_empty' =
                    [consecutive_empty EXCEPT ![w] = consecutive_empty[w] + 1]
             /\ hist' = [hist EXCEPT ![w] =
                    [NoHist EXCEPT
                        !.sleep = IF consecutive_empty[w] + 1
                                        >= max_empty_before_longer_sleep
                                  THEN "long" ELSE "short"]]
             /\ loc' = [loc EXCEPT ![w].pc =
                    IF consecutive_empty[w] + 1 >= max_empty_before_longer_sleep
                    THEN "stats" ELSE "pop"]
             /\ UNCHANGED word_queue
        ELSE /\ word_queue' = Tail(word_queue)
             /\ consecutive_empty' = [consecutive_empty EXCEPT ![w] = 0]
             /\ \E rnd \in RandomPercents :
                 IF should_randomly_skip_word(rnd)
                 THEN /\ hist' = [hist EXCEPT ![w] = NoHist]
                      /\ UNCHANGED loc
                 ELSE /\ hist' = [hist EXCEPT ![w] =
                            [NoHist EXCEPT !.from = Start,
                                           !.word = Head(word_queue)]]
                      /\ loc' = [loc EXCEPT ![w] =
                            [IdleLoc EXCEPT !.pc = "gp", !.ret = "start",
                                            !.word = Head(word_queue)]]

\* ------------------------------------------ get_working_proxy, by command
\* the exception create_proxy_scraper lets out when the client library
\* fails: its message names neither ProxyError nor ConnectionError
ClientError == Raised("Exception")

\* get_working_proxy returns proxy_url to create_proxy_scraper, leaving the
\* globals (proxy, count); the fetch goes on from where it called: the
\* first attempt (line 253), or the next turn of the loop (280, 288, 301).
\* When create_proxy_scraper raises, the calls of lines 253 and 301 (the
\* latter made inside the except clause) let the exception out of the fetch
\* to main's handler; that of the calls of lines 280 and 288 is caught at
\* line 293: the local scraper is the old one, the handler sleeps and the
\* loop takes its next turn, or returns None after the last attempt.
GpReturn(w, proxy_url, proxy, count, raised) ==
    \E raises \in ClientFaults :
    LET c == create_proxy_scraper(scraper_instance[w], proxy_url, proxy,
                                  raises)
        called == [loc[w] EXCEPT !.ret = "-", !.proxy_url = proxy_url,
                                 !.recycling = <<>>, !.failed_proxy = None]
        at == [called EXCEPT !.scraper = c.scraper_instance]
        over == loc[w].ret # "start" /\ loc[w].attempt + 1 >= max_retries
    IN  /\ current_proxy' = [current_proxy EXCEPT ![w] = proxy]
        /\ proxy_failure_count' = [proxy_failure_count EXCEPT ![w] = count]
        /\ scraper_instance' =
                [scraper_instance EXCEPT ![w] = c.scraper_instance]
        /\ sticky_failures' = [sticky_failures EXCEPT ![w] =
                IF proxy = current_proxy[w] THEN @ ELSE 0]
        /\ IF ~ c.raised
           THEN /\ hist' = [hist EXCEPT ![w].raised = raised,
                                        ![w].fetched =
                                            IF over THEN "none" ELSE @]
                /\ loc' = [loc EXCEPT ![w] =
                        IF loc[w].ret = "start" THEN [at EXCEPT !.pc = "req"]
                        ELSE IF ~ over
                        THEN [at EXCEPT !.pc = "req",
                                        !.attempt = loc[w].attempt + 1]
                        ELSE [at EXCEPT !.pc = "failed"]]
           ELSE IF loc[w].ret \in {"start", "handler"}
           THEN Recover(w)
           ELSE /\ hist' = [hist EXCEPT
                        ![w].raised = raised,
                        ![w].waits =
                            [@ EXCEPT ![Len(@)] =
                                @ + MinWait(ClientError, loc[w].attempt)],
                        ![w].fetched = IF over THEN "none" ELSE @]
                /\ loc' = [loc EXCEPT ![w] =
                        IF ~ over
                        THEN [called EXCEPT !.pc = "req",
                                            !.attempt = loc[w].attempt + 1]
                        ELSE [called EXCEPT !.pc = "failed"]]

\* the except clause: return None, globals as they are
GpRaise(w) ==
    GpReturn(w, None, current_proxy[w], proxy_failure_count[w], TRUE)

\* lines 58-63 with the head of proxy_queue read and left in the list
GpPop_peek(w) ==
    /\ At(w, "gp")
    /\ UNCHANGED <<word_queue, proxy_failed, store, consecutive_empty, process,
                   cfg>>
    /\ IF StickyUsable(current_proxy[w], proxy_failure_count[w])
       THEN /\ GpReturn(w, current_proxy[w], current_proxy[w],
                        proxy_failure_count[w], FALSE)
            /\ UNCHANGED proxy_queue
       ELSE \E err \in Faults :
            IF err THEN GpRaise(w) /\ UNCHANGED proxy_queue
            ELSE IF proxy_queue # <<>>
            THEN /\ UNCHANGED proxy_queue
                 /\ GpReturn(w, Head(proxy_queue), Head(proxy_queue), 0, FALSE)
            ELSE /\ loc' = [loc EXCEPT ![w].pc = "gp_llen",
                                       ![w].recycling = proxy_failed]
                 /\ UNCHANGED <<proxy_queue, globals, sticky, hist>>

\* lines 58-63: keep the sticky proxy, or lpop proxy_queue
GpPop(w) ==
    /\ At(w, "gp")
    /\ UNCHANGED <<word_queue, proxy_failed, store, consecutive_empty, process,
                   cfg>>
    /\ IF StickyUsable(current_proxy[w], proxy_failure_count[w])
       THEN /\ GpReturn(w, current_proxy[w], current_proxy[w],
                        proxy_failure_count[w], FALSE)
            /\ UNCHANGED proxy_queue
       ELSE \E err \in Faults :
            IF err THEN GpRaise(w) /\ UNCHANGED proxy_queue
            ELSE IF proxy_queue # <<>>
            THEN /\ proxy_queue' = Tail(proxy_queue)
                 /\ GpReturn(w, Head(proxy_queue), Head(proxy_queue), 0, FALSE)
            ELSE /\ loc' = [loc EXCEPT ![w].pc = "gp_llen",
                                       ![w].recycling = proxy_failed]
                 /\ UNCHANGED <<proxy_queue, globals, sticky, hist>>

\* lines 67-68: failed_count = llen proxy_failed
GpLlen(w) ==
    /\ At(w, "gp_llen")
    /\ UNCHANGED <<shared, consecutive_empty, process, cfg>>
    /\ \E err \in Faults :
        IF err THEN GpRaise(w)
        ELSE IF Len(proxy_failed) > 0
        THEN /\ loc' = [loc EXCEPT ![w].pc = "gp_while"]
             /\ UNCHANGED <<globals, sticky, hist>>
        ELSE GpReturn(w, None, None, proxy_failure_count[w], FALSE)

\* line 71 with an if for the while: one proxy is moved, then the retry
GpWhile_once(w) ==
    /\ At(w, "gp_while")
    /\ UNCHANGED <<shared, consecutive_empty, process, cfg>>
    /\ \E err \in Faults :
        IF err THEN GpRaise(w)
        ELSE /\ loc' = [loc EXCEPT ![w].pc =
                    IF Len(proxy_failed) > 0 /\ proxy_queue = <<>>
                    THEN "gp_lpop" ELSE "gp_retry"]
             /\ UNCHANGED <<globals, sticky, hist>>

\* line 71: while llen proxy_failed > 0
GpWhile(w) ==
    /\ At(w, "gp_while")
    /\ UNCHANGED <<shared, consecutive_empty, process, cfg>>
    /\ \E err \in Faults :
        IF err THEN GpRaise(w)
        ELSE /\ loc' = [loc EXCEPT ![w].pc =
                    IF Len(proxy_failed) > 0 THEN "gp_lpop" ELSE "gp_retry"]
             /\ UNCHANGED <<globals, sticky, hist>>

\* line 72: failed_proxy = lpop proxy_failed
GpLpopFailed(w) ==
    /\ At(w, "gp_lpop")
    /\ UNCHANGED <<word_queue, proxy_queue, store, consecutive_empty, process,
                   cfg>>
    /\ \E err \in Faults :
        IF err THEN GpRaise(w) /\ UNCHANGED proxy_failed
        ELSE IF proxy_failed # <<>>
        THEN /\ proxy_failed' = Tail(proxy_failed)
             /\ loc' = [loc EXCEPT ![w].pc = "gp_rpush",
                                   ![w].failed_proxy = Head(proxy_failed)]
             /\ UNCHANGED <<globals, sticky, hist>>
        ELSE /\ loc' = [loc EXCEPT ![w].pc = "gp_while"]
             /\ UNCHANGED <<proxy_failed, globals, sticky, hist>>

\* the recycle that hands the proxy it took from the quarantine list to the
\* caller, without putting it back on proxy_queue
GpRpush_take(w) ==
    /\ At(w, "gp_rpush")
    /\ UNCHANGED <<word_queue, proxy_queue, proxy_failed, store,
                   consecutive_empty, process, cfg>>
    /\ \E err \in Faults :
        IF err THEN GpRaise(w)
        ELSE GpReturn(w, loc[w].failed_proxy, loc[w].failed_proxy, 0, FALSE)

\* line 74: rpush proxy_queue failed_proxy; the proxy is back in the active
\* pool, which is remembered for the workers that quarantined it
GpRpush(w) ==
    /\ At(w, "gp_rpush")
    /\ UNCHANGED <<word_queue, proxy_failed, store, consecutive_empty, process,
                   cfg>>
    /\ \E err \in Faults :
        IF err THEN GpRaise(w) /\ UNCHANGED proxy_queue
        ELSE /\ proxy_queue' = Append(proxy_queue, loc[w].failed_proxy)
             /\ loc' = [loc EXCEPT ![w].pc = "gp_while",
                                   ![w].failed_proxy = None]
             /\ hist' = [v \in Workers |->
                    IF hist[v].quarantined # None
                       /\ hist[v].quarantined = loc[w].failed_proxy
                    THEN [hist[v] EXCEPT !.recycled = w] ELSE hist[v]]
             /\ UNCHANGED <<globals, sticky>>

\* lines 76-86: the second lpop proxy_queue, then the assignment
GpRetry(w) ==
    /\ At(w, "gp_retry")
    /\ UNCHANGED <<word_queue, proxy_failed, store, consecutive_empty, process,
                   cfg>>
    /\ \E err \in Faults :
        IF err THEN GpRaise(w) /\ UNCHANGED proxy_queue
        ELSE IF proxy_queue # <<>>
        THEN /\ proxy_queue' = Tail(proxy_queue)
             /\ GpReturn(w, Head(proxy_queue), Head(proxy_queue), 0, FALSE)
        ELSE /\ GpReturn(w, None, None, proxy_failure_count[w], FALSE)
             /\ UNCHANGED proxy_queue

\* --------------------------------------------- fetch_html_with_backoff
\* the loop with one turn too many: <= for <
NextAttempt_more(w) ==
    IF loc[w].attempt + 1 <= max_retries
    THEN [loc[w] EXCEPT !.pc = "req", !.attempt = loc[w].attempt + 1]
    ELSE [loc[w] EXCEPT !.pc = "failed"]

\* the loop goes to its next turn, or falls out of it and returns None
NextAttempt(w) ==
    IF loc[w].attempt + 1 < max_retries
    THEN [loc[w] EXCEPT !.pc = "req", !.attempt = loc[w].attempt + 1]
    ELSE [loc[w] EXCEPT !.pc = "failed"]

\* the fetch's result once the loop took the turn NextAttempt
NextFetched(w) == IF loc[w].attempt + 1 < max_retries THEN "-" ELSE "none"

\* the fetch whose success resets the failure counter of the sticky proxy
Req_forgiving(w) ==
    /\ At(w, "req")
    /\ UNCHANGED <<word_queue, proxy_queue, store, consecutive_empty, process,
                   cfg>>
    /\ \E o \in cfg.outcomes :
        LET h == [hist[w] EXCEPT !.outcomes = Append(@, o), !.raised = FALSE,
                                 !.waits = Append(@, MinWait(o, loc[w].attempt)),
                                 !.quarantined = None, !.recycled = 0]
        IN
        CASE Branch(o) = "ok" ->
               /\ UNCHANGED <<proxy_failed, current_proxy, scraper_instance,
                              sticky>>
               /\ proxy_failure_count' = [proxy_failure_count EXCEPT ![w] = 0]
               /\ \E soup \in cfg.pages :
                   LET lemmas == parse_lemma(loc[w].word, soup)
                       hh == [h EXCEPT !.fetched = "ok", !.lemmas = lemmas]
                   IN  IF lemmas = <<>>
                       THEN EndIteration(w)
                       ELSE /\ loc' = [loc EXCEPT ![w] =
                                    [@ EXCEPT !.pc = "insert", !.li = 1,
                                              !.lemmas = lemmas]]
                            /\ hist' = [hist EXCEPT ![w] = hh]
          [] Branch(o) \in {"rate", "exc"} ->
               /\ UNCHANGED <<proxy_failed, globals, sticky>>
               /\ loc' = [loc EXCEPT ![w] = NextAttempt(w)]
               /\ hist' = [hist EXCEPT ![w] =
                                [h EXCEPT !.fetched = NextFetched(w)]]
          [] Branch(o) \in {"proxy", "forbidden", "exc_proxy"} ->
               \E err \in Faults :
                LET m == mark_proxy_failed(current_proxy[w],
                             proxy_failure_count[w], scraper_instance[w],
                             proxy_failed, err)
                    pushing == current_proxy[w] # None /\
                        proxy_failure_count[w] + 1 >= MAX_PROXY_FAILURES
                IN  /\ err => pushing /\ proxy_failure_count[w] < MaxCount
                    /\ current_proxy' =
                           [current_proxy EXCEPT ![w] = m.current_proxy]
                    /\ proxy_failure_count' = [proxy_failure_count EXCEPT
                           ![w] = m.proxy_failure_count]
                    /\ scraper_instance' = [scraper_instance EXCEPT
                           ![w] = m.scraper_instance]
                    /\ proxy_failed' = m.proxy_failed
                    /\ sticky_failures' = [sticky_failures EXCEPT ![w] =
                           IF current_proxy[w] = None THEN @
                           ELSE IF m.current_proxy = None THEN 0 ELSE @ + 1]
                    /\ loc' = [loc EXCEPT ![w].pc = "gp",
                                          ![w].ret =
                                              IF Branch(o) = "exc_proxy"
                                              THEN "handler" ELSE "retry"]
                    /\ hist' = [hist EXCEPT ![w] =
                           [h EXCEPT !.mf = @ + 1, !.raised = err,
                                     !.quarantined =
                                        IF m.proxy_failed # proxy_failed
                                        THEN current_proxy[w] ELSE None]]
          [] OTHER ->
               /\ UNCHANGED <<proxy_failed, globals, sticky>>
               /\ loc' = [loc EXCEPT ![w].pc = "failed"]
               /\ hist' = [hist EXCEPT ![w] = [h EXCEPT !.fetched = "none"]]

\* lines 255-307: one scraper.get and the branch its outcome takes, up to
\* the next Redis command; on 200, parse_lemma (line 463)
Req(w) ==
    /\ At(w, "req")
    /\ UNCHANGED <<word_queue, proxy_queue, store, consecutive_empty, process,
                   cfg>>
    /\ \E o \in cfg.outcomes :
        LET h == [hist[w] EXCEPT !.outcomes = Append(@, o), !.raised = FALSE,
                                 !.waits = Append(@, MinWait(o, loc[w].attempt)),
                                 !.quarantined = None, !.recycled = 0]
        IN
        CASE Branch(o) = "ok" ->
               /\ UNCHANGED <<proxy_failed, globals, sticky>>
               /\ \E soup \in cfg.pages :
                   LET lemmas == parse_lemma(loc[w].word, soup)
                       hh == [h EXCEPT !.fetched = "ok", !.lemmas = lemmas]
                   IN  IF lemmas = <<>>
                       THEN EndIteration(w)
                       ELSE /\ loc' = [loc EXCEPT ![w] =
                                    [@ EXCEPT !.pc = "insert", !.li = 1,
                                              !.lemmas = lemmas]]
                            /\ hist' = [hist EXCEPT ![w] = hh]
          [] Branch(o) \in {"rate", "exc"} ->
               /\ UNCHANGED <<proxy_failed, globals, sticky>>
               /\ loc' = [loc EXCEPT ![w] = NextAttempt(w)]
               /\ hist' = [hist EXCEPT ![w] =
                                [h EXCEPT !.fetched = NextFetched(w)]]
          [] Branch(o) \in {"proxy", "forbidden", "exc_proxy"} ->
               \E err \in Faults :
                LET m == mark_proxy_failed(current_proxy[w],
                             proxy_failure_count[w], scraper_instance[w],
                             proxy_failed, err)
                    pushing == current_proxy[w] # None /\
                        proxy_failure_count[w] + 1 >= MAX_PROXY_FAILURES
                IN  /\ err => pushing /\ proxy_failure_count[w] < MaxCount
                    /\ current_proxy' =
                           [current_proxy EXCEPT ![w] = m.current_proxy]
                    /\ proxy_failure_count' = [proxy_failure_count EXCEPT
                           ![w] = m.proxy_failure_count]
                    /\ scraper_instance' = [scraper_instance EXCEPT
                           ![w] = m.scraper_instance]
                    /\ proxy_failed' = m.proxy_failed
                    /\ sticky_failures' = [sticky_failures EXCEPT ![w] =
                           IF current_proxy[w] = None THEN @
                           ELSE IF m.current_proxy = None THEN 0 ELSE @ + 1]
                    /\ loc' = [loc EXCEPT ![w].pc = "gp",
                                          ![w].ret =
                                              IF Branch(o) = "exc_proxy"
                                              THEN "handler" ELSE "retry"]
                    /\ hist' = [hist EXCEPT ![w] =
                           [h EXCEPT !.mf = @ + 1, !.raised = err,
                                     !.quarantined =
                                        IF m.proxy_failed # proxy_failed
                                        THEN current_proxy[w] ELSE None]]
          [] OTHER ->
               /\ UNCHANGED <<proxy_failed, globals, sticky>>
               /\ loc' = [loc EXCEPT ![w].pc = "failed"]
               /\ hist' = [hist EXCEPT ![w] = [h EXCEPT !.fetched = "none"]]

\* the re-push made with lpush for rpush: the word goes to the head
Failed_front(w) ==
    /\ At(w, "failed")
    /\ UNCHANGED <<proxy_queue, proxy_failed, store, globals,
                   consecutive_empty, process, sticky, cfg>>
    /\ \E rnd \in RandomPercents :
        IF GiveUp(rnd)
        THEN EndIteration(w) /\ UNCHANGED word_queue
        ELSE \E err \in Faults :
             IF err
             THEN Recover(w) /\ UNCHANGED word_queue
             ELSE /\ Len(word_queue) < MaxQueue
                  /\ word_queue' = <<loc[w].word>> \o word_queue
                  /\ EndIteration(w)

\* the re-push whose exception nobody catches: the process dies
Failed_escape(w) ==
    /\ At(w, "failed")
    /\ UNCHANGED <<proxy_queue, proxy_failed, store, globals,
                   consecutive_empty, sticky, cfg>>
    /\ \E rnd \in RandomPercents :
        IF GiveUp(rnd)
        THEN EndIteration(w) /\ UNCHANGED <<word_queue, process>>
        ELSE \E err \in Faults :
             IF err
             THEN /\ running' = [running EXCEPT ![w] = FALSE]
                  /\ UNCHANGED mongo_open
                  /\ loc' = [loc EXCEPT ![w] = [IdleLoc EXCEPT !.pc = "crashed"]]
                  /\ hist' = [hist EXCEPT ![w] = NoHist]
                  /\ UNCHANGED word_queue
             ELSE /\ Len(word_queue) < MaxQueue
                  /\ word_queue' = Append(word_queue, loc[w].word)
                  /\ EndIteration(w)
                  /\ UNCHANGED process

\* lines 453-461: the fetch returned None; give up, or rpush the word
Failed(w) ==
    /\ At(w, "failed")
    /\ UNCHANGED <<proxy_queue, proxy_failed, store, globals,
                   consecutive_empty, process, sticky, cfg>>
    /\ \E rnd \in RandomPercents :
        IF GiveUp(rnd)
        THEN EndIteration(w) /\ UNCHANGED word_queue
        ELSE \E err \in Faults :
             IF err
             THEN Recover(w) /\ UNCHANGED word_queue
             ELSE /\ Len(word_queue) < MaxQueue
                  /\ word_queue' = Append(word_queue, loc[w].word)
                  /\ EndIteration(w)

\* ------------------------------------------------- main: insert, expand
\* the lemma loop of lines 472-483 goes to its next lemma, or the
\* iteration ends; h is what the iteration did so far
AfterLemma(w, h) ==
    IF loc[w].li < Len(loc[w].lemmas)
    THEN /\ loc' = [loc EXCEPT ![w] =
                [IdleLoc EXCEPT !.pc = "insert", !.word = loc[w].word,
                    !.lemmas = loc[w].lemmas, !.li = loc[w].li + 1]]
         /\ hist' = [hist EXCEPT ![w] = h]
    ELSE /\ loc' = [loc EXCEPT ![w] =
                [IdleLoc EXCEPT !.pc = "stats", !.word = loc[w].word]]
         /\ hist' = [hist EXCEPT ![w] = h]

\* the insert whose failure ends the iteration: the other lemmas are left
Insert_abort(w) ==
    /\ At(w, "insert")
    /\ UNCHANGED <<word_queue, proxy_queue, proxy_failed, globals,
                   consecutive_empty, process, sticky, cfg>>
    /\ \E err \in StoreFaults(w) :
        LET lemma == loc[w].lemmas[loc[w].li]
            ins == safe_insert_lemma(store, lemma, err)
        IN  /\ ins.ok => Len(store) < MaxStore
            /\ store' = ins.collection
            /\ IF ~ ins.ok
               THEN EndIteration(w)
               ELSE IF lemma.synonyms # <<>>
               THEN /\ loc' = [loc EXCEPT ![w].pc = "ex_snap"]
                    /\ hist' = [hist EXCEPT ![w].persisted = @ + 1]
               ELSE AfterLemma(w, [hist[w] EXCEPT !.persisted = @ + 1])

\* the insert whose result is not looked at: the expansion always starts
Insert_always(w) ==
    /\ At(w, "insert")
    /\ UNCHANGED <<word_queue, proxy_queue, proxy_failed, globals,
                   consecutive_empty, process, sticky, cfg>>
    /\ \E err \in StoreFaults(w) :
        LET lemma == loc[w].lemmas[loc[w].li]
            ins == safe_insert_lemma(store, lemma, err)
        IN  /\ ins.ok => Len(store) < MaxStore
            /\ store' = ins.collection
            /\ IF lemma.synonyms # <<>>
               THEN /\ loc' = [loc EXCEPT ![w].pc = "ex_snap"]
                    /\ hist' = [hist EXCEPT ![w].persisted =
                                    IF ins.ok THEN @ + 1 ELSE @]
               ELSE AfterLemma(w, [hist[w] EXCEPT !.persisted =
                                        IF ins.ok THEN @ + 1 ELSE @])

\* lines 473-477: safe_insert_lemma; on success the expansion starts.
\* insert_one adds one document each time it succeeds, a copy of a stored
\* document too; the runs explored are those whose collection holds
\* MaxStore documents at most.
Insert(w) ==
    /\ At(w, "insert")
    /\ UNCHANGED <<word_queue, proxy_queue, proxy_failed, globals,
                   consecutive_empty, process, sticky, cfg>>
    /\ \E err \in StoreFaults(w) :
        LET lemma == loc[w].lemmas[loc[w].li]
            ins == safe_insert_lemma(store, lemma, err)
        IN  /\ ins.ok => Len(store) < MaxStore
            /\ store' = ins.collection
            /\ IF ins.ok /\ lemma.synonyms # <<>>
               THEN /\ loc' = [loc EXCEPT ![w].pc = "ex_snap"]
                    /\ hist' = [hist EXCEPT ![w].persisted = @ + 1]
               ELSE AfterLemma(w, [hist[w] EXCEPT !.persisted =
                                        IF ins.ok THEN @ + 1 ELSE @])

\* the synonym loop stands at synonym sc.si with the verdicts sc.res and
\* the batch batch: ask the store next, push the batch, or go on
AfterScan(w, sc, batch) ==
    IF sc.si <= Len(loc[w].lemmas[loc[w].li].synonyms)
    THEN /\ loc' = [loc EXCEPT ![w].pc = "ex_check", ![w].si = sc.si,
                        ![w].res = sc.res, ![w].words_to_add = batch]
         /\ UNCHANGED hist
    ELSE IF batch # <<>>
    THEN /\ loc' = [loc EXCEPT ![w].pc = "ex_push", ![w].si = sc.si,
                        ![w].res = sc.res, ![w].words_to_add = batch]
         /\ UNCHANGED hist
    ELSE AfterLemma(w, hist[w])

\* lines 380-397: the snapshot of word_queue, then the loop up to the first
\* synonym that needs the store
ExSnapshot(w) ==
    /\ At(w, "ex_snap")
    /\ UNCHANGED <<shared, globals, consecutive_empty, process,
                   sticky, cfg>>
    /\ \E err \in Faults :
        LET qw == get_redis_queue_words(word_queue, err)
            sc == Scan(loc[w].lemmas[loc[w].li].synonyms, 1, qw, <<>>)
        IN  IF sc.si <= Len(loc[w].lemmas[loc[w].li].synonyms)
            THEN /\ loc' = [loc EXCEPT ![w].pc = "ex_check",
                                ![w].queue_words = qw, ![w].si = sc.si,
                                ![w].res = sc.res]
                 /\ UNCHANGED hist
            ELSE AfterLemma(w, hist[w])

\* lines 400-403: check_word_exists_in_mongo for synonym si, then the loop
\* up to the next synonym that needs the store
ExCheck(w) ==
    /\ At(w, "ex_check")
    /\ UNCHANGED <<shared, globals, consecutive_empty, process,
                   sticky, cfg>>
    /\ \E err \in StoreFaults(w) :
        LET synonyms == loc[w].lemmas[loc[w].li].synonyms
            clean == clean_synonym(synonyms[loc[w].si])
            found == check_word_exists_in_mongo(store, clean, err)
            batch == IF found THEN loc[w].words_to_add
                     ELSE Append(loc[w].words_to_add, clean)
            verdict == IF err THEN "error"
                       ELSE IF \E i \in 1..Len(store) :
                                    store[i].term = strip(lower(clean))
                       THEN "hit" ELSE "miss"
        IN  AfterScan(w, Scan(synonyms, loc[w].si + 1, loc[w].queue_words,
                              Append(loc[w].res, verdict)), batch)

\* the batch pushed with lpush for rpush: at the head, in reverse
ExPush_lpush(w) ==
    /\ At(w, "ex_push")
    /\ UNCHANGED <<proxy_queue, proxy_failed, store, globals,
                   consecutive_empty, process, sticky, cfg>>
    /\ \E err \in Faults :
        IF err
        THEN AfterLemma(w, hist[w]) /\ UNCHANGED word_queue
        ELSE /\ Len(word_queue) + Len(loc[w].words_to_add) <= MaxQueue
             /\ word_queue' =
                    [i \in 1..Len(loc[w].words_to_add) |->
                        loc[w].words_to_add[Len(loc[w].words_to_add) + 1 - i]]
                    \o word_queue
             /\ AfterLemma(w, [hist[w] EXCEPT !.pushed =
                                    @ \o loc[w].words_to_add])

\* lines 406-415: rpush word_queue *words_to_add; an error is logged
ExPush(w) ==
    /\ At(w, "ex_push")
    /\ UNCHANGED <<proxy_queue, proxy_failed, store, globals,
                   consecutive_empty, process, sticky, cfg>>
    /\ \E err \in Faults :
        IF err
        THEN AfterLemma(w, hist[w]) /\ UNCHANGED word_queue
        ELSE /\ Len(word_queue) + Len(loc[w].words_to_add) <= MaxQueue
             /\ word_queue' = word_queue \o loc[w].words_to_add
             /\ AfterLemma(w, [hist[w] EXCEPT !.pushed =
                                    @ \o loc[w].words_to_add])

\* ------------------------------------------- get_proxy_stats, by command
\* the call of get_proxy_stats by w returns s: main prints it, sleeps
\* (lines 431-433, 479-483) and is back at the top of its loop
StatsReturn(w, s) ==
    /\ loc' = [loc EXCEPT ![w] = IdleLoc]
    /\ hist' = [hist EXCEPT ![w] =
            [NoHist EXCEPT !.sleep = hist[w].sleep, !.stats = s]]

\* line 118: llen proxy_queue
StatsAvailable(w) ==
    /\ At(w, "stats")
    /\ UNCHANGED <<shared, globals, consecutive_empty, process, sticky, cfg>>
    /\ \E err \in Faults :
        IF err THEN StatsReturn(w, get_proxy_stats(proxy_queue, proxy_failed, TRUE))
        ELSE /\ loc' = [loc EXCEPT ![w].pc = "stats_failed",
                                   ![w].available = Len(proxy_queue)]
             /\ UNCHANGED hist

\* lines 119-120: llen proxy_failed, return
StatsFailed(w) ==
    /\ At(w, "stats_failed")
    /\ UNCHANGED <<shared, globals, consecutive_empty, process, sticky, cfg>>
    /\ \E err \in Faults :
        StatsReturn(w, IF err
                       THEN get_proxy_stats(proxy_queue, proxy_failed, TRUE)
                       ELSE <<loc[w].available,
                              get_proxy_stats(proxy_queue, proxy_failed,
                                              FALSE)[2]>>)

\* ------------------------------------------------------------- shutdown
\* signal_handler: close the store connection and exit; the process's
\* memory, the sticky proxy with it, is gone
Signal(w) ==
    /\ running[w]
    /\ running' = [running EXCEPT ![w] = FALSE]
    /\ mongo_open' = [mongo_open EXCEPT ![w] = FALSE]
    /\ loc' = [loc EXCEPT ![w] = [IdleLoc EXCEPT !.pc = "exited"]]
    /\ current_proxy' = [current_proxy EXCEPT ![w] = None]
    /\ proxy_failure_count' = [proxy_failure_count EXCEPT ![w] = 0]
    /\ scraper_instance' = [scraper_instance EXCEPT ![w] = None]
    /\ sticky_failures' = [sticky_failures EXCEPT ![w] = 0]
    /\ consecutive_empty' = [consecutive_empty EXCEPT ![w] = 0]
    /\ hist' = [hist EXCEPT ![w] = NoHist]
    /\ UNCHANGED <<shared, cfg>>

\* the signal arrives while get_proxy_stats is in one of its reads: the
\* handler closes the client and raises SystemExit, the bare except of
\* line 121 catches it and the call returns (0, 0)
SignalInStats(w) ==
    /\ running[w]
    /\ loc[w].pc \in {"stats", "stats_failed"}
    /\ mongo_open' = [mongo_open EXCEPT ![w] = FALSE]
    /\ StatsReturn(w, <<0, 0>>)
    /\ UNCHANGED <<shared, globals, consecutive_empty, running, sticky, cfg>>

Next ==
    \E w \in Workers :
        \/ Pop(w)
        \/ GpPop(w)
        \/ GpLlen(w)
        \/ GpWhile(w)
        \/ GpLpopFailed(w)
        \/ GpRpush(w)
        \/ GpRetry(w)
        \/ Req(w)
        \/ Failed(w)
        \/ Insert(w)
        \/ ExSnapshot(w)
        \/ ExCheck(w)
        \/ ExPush(w)
        \/ StatsAvailable(w)
        \/ StatsFailed(w)
        \/ Signal(w)
        \/ SignalInStats(w)

Spec == Init /\ [][Next]_vars

\* ============================================= the crawl, fairly scheduled
\* The deployments of the liveness properties: the same workers and the
\* same steps, on a site whose answer is the same for every word.
\* all workers, one proxy, a site answering every request with 503
FailingProfile ==
    Profile(Workers, FALSE, <<happy, happy>>, <<>>, SubSeq(ProxyFile, 1, 1),
            {Status(503)}, {PageNone})
\* one worker without proxies, a site whose every page has one sense with
\* the synonym "-ad"
SuffixProfile ==
    Profile({1}, FALSE, <<happy>>, <<>>, <<>>, {Status(200)}, {PageSuffix})

FairProfiles == {FailingProfile, SuffixProfile}

FairInit == \E c \in FairProfiles : InitOf(c)

\* a step of the process w: any command of its loop; a signal is not one
WorkerNext(w) ==
    \/ Pop(w)
    \/ GpPop(w)
    \/ GpLlen(w)
    \/ GpWhile(w)
    \/ GpLpopFailed(w)
    \/ GpRpush(w)
    \/ GpRetry(w)
    \/ Req(w)
    \/ Failed(w)
    \/ Insert(w)
    \/ ExSnapshot(w)
    \/ ExCheck(w)
    \/ ExPush(w)
    \/ StatsAvailable(w)
    \/ StatsFailed(w)

\* line 455-457: random.random() < 0.7, the failed word is given up
GivesUp(w) == Failed(w) /\ UNCHANGED word_queue

\* line 443: should_randomly_skip_word() is true, the popped word is dropped
Skips(w) == Pop(w) /\ word_queue' # word_queue /\ loc'[w] = loc[w]

\* every process is scheduled: its sleeps end and its commands return
Scheduled == \A w \in Workers : WF_vars(WorkerNext(w))

\* the draw of line 455 is fair: a worker that keeps coming to it does not
\* draw "re-push" forever
FairGiveUp == \A w \in Workers : SF_vars(GivesUp(w))

\* the draw of line 443 is fair: a worker that keeps popping words does not
\* draw "no skip" forever
FairSkip == \A w \in Workers : SF_vars(Skips(w))

\* scheduled processes and fair draws: each call of random.random() is a
\* fresh draw, so an outcome of positive probability that is offered again
\* and again is drawn in the end
Fairness == Scheduled /\ FairGiveUp /\ FairSkip

\* the crawl under no more than a failing term's removal needs: scheduled
\* processes and the fair draw of line 455, the skip left to chance
FairSpec == FairInit /\ [][Next]_vars /\ Scheduled /\ FairGiveUp

\* the crawl with every draw fair
DrawSpec == FairInit /\ [][Next]_vars /\ Fairness

\* =============================================================== bootstrap
\* init_proxies.py, run once before the workers.  In BootSpec cfg holds the
\* proxy files and whether a command may raise, loc the control point of
\* initialize_proxy_queue, hist the lists as they were before the run; the
\* workers' variables stay as they start.
\* a path without a file, and a file of the given lines
Missing == [exists |-> FALSE, lines |-> <<>>]
File(lines) == [exists |-> TRUE, lines |-> lines]
BootPaths == 3
ProxyLine == <<"p">>
PaddedLine == <<" ", "d", " ">>
BlankLine == <<" ">>
CommentLine == <<"#", "p">>
IndentedComment == <<" ", "#">>
FileLines == {ProxyLine, PaddedLine, BlankLine, CommentLine, IndentedComment}

\* the files of at most n lines
FilesUpTo(n) == UNION {[1..k -> FileLines] : k \in 0..n}

\* /proxies/proxies.txt, and proxies.txt of the working directory
MountedFiles == {Missing} \cup {File(l) : l \in FilesUpTo(MaxLines)}
LocalFiles ==
    {Missing, File(<<>>), File(<<ProxyLine>>), File(<<CommentLine>>)}

\* possible_paths: './proxies.txt' and 'proxies.txt' name one file
possible_paths(mounted, local) == <<mounted, local, local>>

\* what is already in a proxy list when the bootstrap runs
PriorLists == {<<>>, <<<<"o">>>>}

\* str.startswith('#')
startswith_hash(line) == line # <<>> /\ Head(line) = "#"

\* line 15 with the comment test made on the stripped line
ParseProxyFile_stripped(f) ==
    LET kept == SelectSeq(f, LAMBDA line :
                    strip(line) # <<>> /\ ~ startswith_hash(strip(line)))
    IN  [i \in 1..Len(kept) |-> strip(kept[i])]

\* line 15: [line.strip() for line in f
\*           if line.strip() and not line.startswith('#')]
ParseProxyFile(f) ==
    LET kept == SelectSeq(f, LAMBDA line :
                    strip(line) # <<>> /\ ~ startswith_hash(line))
    IN  [i \in 1..Len(kept) |-> strip(kept[i])]

BootLoc == [pc |-> "open", path |-> 1, proxies |-> <<>>, ret |-> "-"]

workerside ==
    <<word_queue, store, globals, consecutive_empty, process, sticky>>

BootInit ==
    /\ cfg \in [paths : {possible_paths(m, l) :
                            m \in MountedFiles, l \in LocalFiles},
                 faults : BOOLEAN]
    /\ proxy_queue \in PriorLists
    /\ proxy_failed \in PriorLists
    /\ loc = BootLoc
    /\ hist = [queue |-> proxy_queue, failed |-> proxy_failed,
               raised |-> FALSE]
    /\ word_queue = <<>>
    /\ store = <<>>
    /\ current_proxy = [w \in Workers |-> None]
    /\ proxy_failure_count = [w \in Workers |-> 0]
    /\ scraper_instance = [w \in Workers |-> None]
    /\ consecutive_empty = [w \in Workers |-> 0]
    /\ running = [w \in Workers |-> FALSE]
    /\ mongo_open = [w \in Workers |-> FALSE]
    /\ sticky_failures = [w \in Workers |-> 0]

\* the for loop goes to its next path, or falls out of it: return False
NextPath(raised) ==
    /\ loc' = IF loc.path < BootPaths
              THEN [BootLoc EXCEPT !.path = loc.path + 1]
              ELSE [BootLoc EXCEPT !.pc = "done", !.path = loc.path,
                                   !.ret = "False"]
    /\ hist' = [hist EXCEPT !.raised = @ \/ raised]

\* lines 12-17: open the path and read its proxies
BootOpen ==
    /\ loc.pc = "open"
    /\ UNCHANGED <<proxy_queue, proxy_failed, workerside, cfg>>
    /\ LET f == cfg.paths[loc.path]
       IN  IF ~ f.exists THEN NextPath(FALSE)
           ELSE \E err \in Faults :
                IF err THEN NextPath(TRUE)
                ELSE IF ParseProxyFile(f.lines) = <<>> THEN NextPath(FALSE)
                ELSE /\ loc' = [loc EXCEPT !.pc = "delete_queue",
                                           !.proxies = ParseProxyFile(f.lines)]
                     /\ UNCHANGED hist

\* line 18: r.delete("proxy_queue")
BootDeleteQueue ==
    /\ loc.pc = "delete_queue"
    /\ UNCHANGED <<proxy_failed, workerside, cfg>>
    /\ \E err \in Faults :
        IF err THEN NextPath(TRUE) /\ UNCHANGED proxy_queue
        ELSE /\ proxy_queue' = <<>>
             /\ loc' = [loc EXCEPT !.pc = "delete_failed"]
             /\ UNCHANGED hist

\* line 19: r.delete("proxy_failed")
BootDeleteFailed ==
    /\ loc.pc = "delete_failed"
    /\ UNCHANGED <<proxy_queue, workerside, cfg>>
    /\ \E err \in Faults :
        IF err THEN NextPath(TRUE) /\ UNCHANGED proxy_failed
        ELSE /\ proxy_failed' = <<>>
             /\ loc' = [loc EXCEPT !.pc = "rpush"]
             /\ UNCHANGED hist

\* lines 20-22: r.rpush("proxy_queue", *proxies); return True
BootRpush ==
    /\ loc.pc = "rpush"
    /\ UNCHANGED <<proxy_failed, workerside, cfg>>
    /\ \E err \in Faults :
        IF err THEN NextPath(TRUE) /\ UNCHANGED proxy_queue
        ELSE /\ proxy_queue' = proxy_queue \o loc.proxies
             /\ loc' = [loc EXCEPT !.pc = "done", !.ret = "True"]
             /\ UNCHANGED hist

BootNext ==
    \/ BootOpen
    \/ BootDeleteQueue
    \/ BootDeleteFailed
    \/ BootRpush

BootSpec == BootInit /\ [][BootNext]_vars

\* ================================================================== claims
Last(q) == q[Len(q)]

\* the step is a call of mark_proxy_failed by w
MarkCall(w) == hist'[w].mf = hist[w].mf + 1

\* the step moves w's sticky proxy to the quarantine pool
Quarantines(w) == proxy_failed' = Append(proxy_failed, current_proxy[w])

\* what C1 says of a call of mark_proxy_failed by w on its sticky proxy:
\* the proxy is quarantined on the 3rd call of the sequence and on no
\* other, and the quarantine leaves the counter at 0 and no sticky proxy
ThirdCallQuarantines(w) ==
    /\ Quarantines(w) <=> sticky_failures[w] + 1 = 3
    /\ Quarantines(w) =>
          /\ proxy_failure_count'[w] = 0
          /\ current_proxy'[w] = None
          /\ scraper_instance'[w] = None

\* C1: every sequence of mark_proxy_failed calls by one worker on the same
\* sticky proxy quarantines it exactly once, on the 3rd call and not on the
\* 1st or 2nd, and the quarantine leaves the counter at 0 and no sticky
\* proxy.  Violated when the rpush of the 3rd call raises: the error is
\* swallowed, the proxy is not quarantined by that call and stays sticky
\* with its counter at 3.
C1_QuarantineOnThird ==
    [][\A w \in Workers :
          MarkCall(w) /\ current_proxy[w] # None => ThirdCallQuarantines(w)]_vars

\* the control points inside get_working_proxy
GpPcs == {"gp", "gp_llen", "gp_while", "gp_lpop", "gp_rpush", "gp_retry"}

\* the step is the return of w's call of get_working_proxy, after which
\* the fetch goes on
GpReturns(w) == loc[w].pc \in GpPcs /\ loc'[w].pc \in {"req", "failed"}

\* the step is the return of w's call of get_working_proxy, after which
\* create_proxy_scraper raised and the exception reached main's handler
ClientRaises(w) ==
    /\ loc[w].pc \in GpPcs
    /\ loc'[w].pc = "pop"
    /\ running'[w]
    /\ hist'[w].sleep = "recovery"

\* the returning call found proxy_queue empty and proxy_failed holding
\* loc[w].recycling
Recycled(w) == GpReturns(w) /\ loc[w].recycling # <<>>

\* what C2 says of the return of a recycling call: the whole quarantine
\* pool was moved to the active pool, then one pop was made, and a proxy is
\* returned
RecycleReturnsProxy(w) ==
    /\ loc[w].pc = "gp_retry"
    /\ proxy_queue = loc[w].recycling
    /\ proxy_failed = <<>>
    /\ loc'[w].proxy_url = Head(loc[w].recycling)
    /\ loc'[w].proxy_url # None
    /\ current_proxy'[w] = loc'[w].proxy_url
    /\ proxy_failure_count'[w] = 0
    /\ proxy_queue' = Tail(loc[w].recycling)
    /\ proxy_failed' = <<>>

\* C2 as stated: a call of get_working_proxy without a usable sticky proxy
\* that finds the active pool empty and the quarantine pool non-empty moves
\* every quarantined proxy to the active pool, retries the pop once and
\* returns a proxy.  Violated when another worker pops the recycled proxy
\* first, and when a command of the call raises.
C2_Original ==
    [][\A w \in Workers : Recycled(w) => RecycleReturnsProxy(w)]_vars

\* C2, amended: the same, for a worker that is the only one using the
\* pools and a call in which no Redis command raises.
C2_RecycleReturnsProxy ==
    [][\A w \in Workers :
          (/\ Recycled(w)
           /\ cfg.workers = {w}
           /\ ~ hist'[w].raised) => RecycleReturnsProxy(w)]_vars

\* the only worker has drained a quarantine pool of two and is about to
\* retry the pop
C2_Witness ==
    \E w \in Workers :
        /\ cfg.workers = {w}
        /\ At(w, "gp_retry")
        /\ loc[w].recycling = <<"h1:8080:u:w", "h2:8080:u:w">>
        /\ proxy_queue = <<"h1:8080:u:w", "h2:8080:u:w">>
        /\ proxy_failed = <<>>

\* the number of times p occurs in the list q
Occurrences(q, p) == Cardinality({i \in 1..Len(q) : q[i] = p})

\* the number of places p is in
Places(p) ==
    Occurrences(proxy_queue, p) + Occurrences(proxy_failed, p)
        + Cardinality({w \in Workers : current_proxy[w] = p})
        + Cardinality({w \in Workers : loc[w].failed_proxy = p})

\* C3 as stated: at every reachable state each bootstrapped proxy is in
\* exactly one of the two pools, never in both and never in neither.
\* Violated as soon as a worker pops its sticky proxy.
C3_Original ==
    \A p \in Range(cfg.proxies) :
        Occurrences(proxy_queue, p) + Occurrences(proxy_failed, p) = 1

\* C3, amended: at every reachable state each bootstrapped proxy is in at
\* most one place -- once in the active pool, once in the quarantine pool,
\* or held by one worker (its sticky proxy, or in its hands during a
\* recycle) -- and, as long as no store command can raise and every started
\* worker runs, in exactly one.
C3_OnePlace ==
    \A p \in Range(cfg.proxies) :
        /\ Places(p) <= 1
        /\ (~ cfg.faults /\ \A w \in cfg.workers : running[w]) => Places(p) = 1

\* p2 is a worker's sticky proxy, in neither pool, while p1 is quarantined
C3_Witness ==
    \E w \in Workers :
        /\ running[w]
        /\ current_proxy[w] = "h2:8080:u:w"
        /\ proxy_failed = <<"h1:8080:u:w">>
        /\ proxy_queue = <<>>

\* the running workers that hold p and can still push it to a pool: as
\* their sticky proxy, or between the lpop and the rpush of the recycle loop
Holders(p) ==
    {w \in Workers :
        running[w] /\ (current_proxy[w] = p \/ loc[w].failed_proxy = p)}

\* C4: no bootstrapped proxy is ever destroyed: whatever calls, store
\* errors and shutdowns happened, each is in the active pool, in the
\* quarantine pool, or held by a running worker that can still return it.
\* Violated by a shutdown of the worker holding it, and by store errors.
C4_Recoverable ==
    \A p \in Range(cfg.proxies) :
        \/ p \in Range(proxy_queue)
        \/ p \in Range(proxy_failed)
        \/ Holders(p) # {}

\* the cleaned synonyms, from the i-th on, whose store check answered
\* "absent" when they were filtered
RECURSIVE MissBatch(_, _, _)
MissBatch(synonyms, res, i) ==
    IF i > Len(res) THEN <<>>
    ELSE (IF res[i] = "miss" THEN <<clean_synonym(synonyms[i])>> ELSE <<>>)
            \o MissBatch(synonyms, res, i + 1)

\* the step is the expander's push by w
ExpanderPushes(w) ==
    loc[w].pc = "ex_push" /\ loc'[w] # loc[w] /\ word_queue' # word_queue

\* C5: the expander never pushes a candidate whose store check answered
\* "exists" when the candidate was filtered, a failed check included: what
\* it pushes is exactly the candidates whose check answered "absent".
C5_NeverPushExisting ==
    [][\A w \in Workers :
          ExpanderPushes(w) =>
            /\ Len(loc[w].res) = Len(loc[w].lemmas[loc[w].li].synonyms)
            /\ word_queue' = word_queue \o
                  MissBatch(loc[w].lemmas[loc[w].li].synonyms, loc[w].res, 1)]_vars

\* the expander is about to push a batch after a check that answered
\* "exists" for one of the lemma's synonyms
C5_Witness ==
    \E w \in Workers :
        /\ At(w, "ex_push")
        /\ loc[w].words_to_add # <<>>
        /\ "hit" \in Range(loc[w].res)
        /\ "miss" \in Range(loc[w].res)

\* the Entry of the end-to-end scenario
HappyEntry ==
    [term |-> happy, part_of_speech |-> "adjective",
     definition |-> "feeling joy", synonyms |-> <<glad, joyful>>]

\* the step ends an iteration of w that processed a word
IterationEnds(w) == loc[w].pc \notin {"pop", "exited"} /\ loc'[w].pc = "pop"

\* C6: one worker, stores that answer; an iteration that started from
\* word_queue = ["happy"] and an empty collection, was not skipped, and
\* whose fetch and parse of "happy" gave the one Entry with synonyms
\* [glad, joyful] ends with exactly that Entry in the collection and
\* word_queue = [glad, joyful], in that order.
C6_EndToEnd ==
    [][\A w \in Workers :
          (/\ IterationEnds(w)
           /\ cfg.workers = {w}
           /\ ~ cfg.faults
           /\ hist[w].from = [queue |-> <<happy>>, store |-> <<>>]
           /\ hist[w].word = happy
           /\ hist[w].lemmas = <<HappyEntry>>)
          => /\ store' = <<HappyEntry>>
             /\ word_queue' = <<glad, joyful>>]_vars

\* the only worker is back at the top of its loop with the Entry stored and
\* both synonyms queued
C6_Witness ==
    \E w \in Workers :
        /\ cfg.workers = {w}
        /\ ~ cfg.faults
        /\ At(w, "pop")
        /\ store = <<HappyEntry>>
        /\ word_queue = <<glad, joyful>>

\* C7: when the outcomes of the fetch of one word are [429, 429, 200], the
\* worker slept at least 10 seconds after each of the two 429s, and the
\* third attempt's page is parsed: the fetch succeeded within the budget.
C7_RateLimitedThenOk ==
    \A w \in Workers :
        hist[w].outcomes = <<Status(429), Status(429), Status(200)>>
        => /\ hist[w].waits[1] >= 10
           /\ hist[w].waits[2] >= 10
           /\ hist[w].fetched = "ok"
           /\ hist[w].lemmas # <<>>
           /\ loc[w].pc \notin {"req", "failed", "gp"}

\* a worker inserts what it parsed from the third attempt, after two 429s
C7_Witness ==
    \E w \in Workers :
        /\ At(w, "insert")
        /\ loc[w].attempt = 2
        /\ hist[w].outcomes = <<Status(429), Status(429), Status(200)>>

\* the iteration of w that ends had the fetch outcomes 503, 503, 503
Ends503(w) ==
    /\ IterationEnds(w)
    /\ hist[w].outcomes = <<Status(503), Status(503), Status(503)>>

\* C8 as stated: after the outcomes [503, 503, 503] the worker abandons the
\* word (it is not put back), mark_proxy_failed was called at least once,
\* and nothing was inserted.  Violated when main re-pushes the word.
C8_Original ==
    [][\A w \in Workers :
          Ends503(w) => /\ word_queue' = word_queue
                        /\ hist[w].mf >= 1
                        /\ hist[w].persisted = 0
                        /\ store' = store]_vars

\* C8, amended: after the outcomes [503, 503, 503] the fetch has failed,
\* mark_proxy_failed was called at least once, nothing is inserted, and the
\* iteration ends either giving the word up or pushing it back to the tail
\* of word_queue for a later retry.
C8_ExhaustedBy503 ==
    [][\A w \in Workers :
          Ends503(w) => /\ loc[w].pc = "failed"
                        /\ hist[w].fetched = "none"
                        /\ \/ word_queue' = word_queue
                           \/ word_queue' = Append(word_queue, hist[w].word)
                        /\ hist[w].mf >= 1
                        /\ hist[w].persisted = 0
                        /\ store' = store]_vars

\* a worker whose fetch failed on three 503s, each marked against the proxy
C8_Witness ==
    \E w \in Workers :
        /\ At(w, "failed")
        /\ hist[w].outcomes = <<Status(503), Status(503), Status(503)>>
        /\ hist[w].mf = 3
        /\ hist[w].persisted = 0

\* the step is w's call of safe_insert_lemma
InsertCall(w) == loc[w].pc = "insert" /\ loc'[w] # loc[w] /\ running'[w]

\* C9: an insert of an Entry adds one document to the collection whether
\* or not an equal Entry is already there, so inserting the same Entry
\* twice adds two; when the store raises the collection is unchanged; in
\* either case the worker goes on with its iteration: no error escapes.
C9_DuplicateInsert ==
    [][\A w \in Workers :
          InsertCall(w) =>
            /\ (~ cfg.faults /\ mongo_open[w]) =>
                  store' = Append(store, loc[w].lemmas[loc[w].li])
            /\ store' \in {store, Append(store, loc[w].lemmas[loc[w].li])}
            /\ loc'[w].pc \in {"insert", "ex_snap", "stats"}]_vars

\* the same Entry was inserted twice: the collection holds it twice
C9_Witness ==
    /\ Len(store) = 2
    /\ store[1] = store[2]
    /\ store[1] = HappyEntry

\* C10: whatever the outcomes, an iteration makes at most 3 requests for
\* its word; once the 3rd was made and did not answer 200, no further
\* request is made: the fetch is failing or has failed, and the iteration
\* has inserted nothing and will not.
C10_AttemptBudget ==
    \A w \in Workers :
        /\ Len(hist[w].outcomes) <= 3
        /\ loc[w].pc = "req" => Len(hist[w].outcomes) = loc[w].attempt
        /\ (Len(hist[w].outcomes) = 3 /\ Last(hist[w].outcomes) # Status(200))
           => /\ loc[w].pc \in GpPcs \cup {"failed"}
              /\ loc[w].pc = "failed" => hist[w].fetched = "none"
              /\ hist[w].fetched # "ok"
              /\ hist[w].persisted = 0
              /\ loc[w].lemmas = <<>>

\* a worker whose third request timed out: the fetch has failed
C10_Witness ==
    \E w \in Workers :
        /\ At(w, "failed")
        /\ Len(hist[w].outcomes) = 3
        /\ Last(hist[w].outcomes) = Raised("Timeout")
        /\ hist[w].fetched = "none"

\* the step ends an iteration of w whose fetch failed in total
EndsFailed(w) == IterationEnds(w) /\ loc[w].pc = "failed"

\* C11: an iteration whose fetch failed in total ends in one of two ways:
\* word_queue and the collection are left as they are, or one copy of the
\* popped word is appended to the tail of word_queue; the iteration has
\* inserted nothing and pushed no other word, and with a single worker the
\* queue and the collection are, up to then, those of its pop less the word.
C11_AbandonOrRepush ==
    [][\A w \in Workers :
          EndsFailed(w) =>
            /\ \/ word_queue' = word_queue
               \/ word_queue' = Append(word_queue, hist[w].word)
            /\ store' = store
            /\ hist[w].fetched = "none"
            /\ hist[w].persisted = 0
            /\ hist[w].pushed = <<>>
            /\ cfg.workers = {w} =>
                  /\ word_queue = Tail(hist[w].from.queue)
                  /\ store = hist[w].from.store]_vars

\* the only worker failed to fetch glad and pushed it back behind joyful
C11_Witness ==
    \E w \in Workers :
        /\ cfg.workers = {w}
        /\ At(w, "pop")
        /\ store = <<HappyEntry>>
        /\ word_queue = <<joyful, glad>>

\* the step is the return of the get_working_proxy call that follows a
\* mark_proxy_failed after a status of the proxy or forbidden branch, made
\* for a retry through a proxy of the same word
RotatesAfterStatus(w) ==
    /\ GpReturns(w)
    /\ loc[w].ret = "retry"
    /\ loc'[w].pc = "req"
    /\ hist[w].outcomes # <<>>
    /\ Branch(Last(hist[w].outcomes)) \in {"proxy", "forbidden"}
    /\ loc[w].proxy_url # None

\* create_proxy_scraper makes a new scraper in this step of w
FreshScraper(w) ==
    ~ (scraper_instance[w] # None /\ loc'[w].proxy_url = current_proxy'[w])

\* C12: after a 407, 502, 503, 504 or 403 the worker has called
\* mark_proxy_failed and the retry of the same word goes through a newly
\* acquired proxy, not the one that just failed; after a 403 the retry
\* also uses a new scraper, not the cached one.  Violated: below the third
\* failure the same sticky proxy and the cached scraper are used again.
C12_RetryThroughNewProxy ==
    [][\A w \in Workers :
          RotatesAfterStatus(w) =>
            /\ hist[w].mf >= 1
            /\ loc'[w].proxy_url # loc[w].proxy_url
            /\ Branch(Last(hist[w].outcomes)) = "forbidden" => FreshScraper(w)]_vars

\* the step is a request of w that is answered o
Answered(w, o) ==
    /\ loc[w].pc = "req"
    /\ hist'[w].outcomes = Append(hist[w].outcomes, o)

\* the step leaves w's proxy state and both pools as they are
ProxyStateUnchanged(w) ==
    /\ current_proxy'[w] = current_proxy[w]
    /\ proxy_failure_count'[w] = proxy_failure_count[w]
    /\ scraper_instance'[w] = scraper_instance[w]
    /\ proxy_queue' = proxy_queue
    /\ proxy_failed' = proxy_failed

\* C13: a 429 makes the worker back off without rotation: no
\* mark_proxy_failed, the sticky proxy, its counter and both pools
\* unchanged; the retry, if the budget allows one, uses the same scraper and
\* proxy, and the attempt is counted: after the third the fetch has failed.
C13_BackoffWithoutRotation ==
    [][\A w \in Workers :
          Answered(w, Status(429)) =>
            /\ hist'[w].mf = hist[w].mf
            /\ ProxyStateUnchanged(w)
            /\ Last(hist'[w].waits) >= 10
            /\ IF loc[w].attempt + 1 < 3
               THEN /\ loc'[w].pc = "req"
                    /\ loc'[w].attempt = loc[w].attempt + 1
                    /\ loc'[w].scraper = loc[w].scraper
                    /\ loc'[w].proxy_url = loc[w].proxy_url
               ELSE /\ loc'[w].pc = "failed"
                    /\ hist'[w].fetched = "none"]_vars

\* a worker about to retry through its sticky proxy p1 after one 429
C13_Witness ==
    \E w \in Workers :
        /\ At(w, "req")
        /\ loc[w].attempt = 1
        /\ hist[w].outcomes = <<Status(429)>>
        /\ hist[w].mf = 0
        /\ current_proxy[w] = "h1:8080:u:w"
        /\ loc[w].proxy_url = "h1:8080:u:w"

\* the statuses fetch_html_with_backoff has no branch for
OtherStatuses ==
    {o \in Outcomes :
        o.exc = "-" /\ o.code \notin {200, 429, 407, 502, 503, 504, 403}}

\* C14: a status other than 200, 429, 407, 502, 503, 504 and 403 ends the
\* fetch at once as a failure: no further attempt whatever budget is
\* left, no sleep, no mark_proxy_failed, proxy state unchanged.
C14_OtherStatusFails ==
    [][\A w \in Workers : \A o \in OtherStatuses :
          Answered(w, o) =>
            /\ loc'[w].pc = "failed"
            /\ loc'[w].attempt = loc[w].attempt
            /\ hist'[w].fetched = "none"
            /\ hist'[w].mf = hist[w].mf
            /\ Last(hist'[w].waits) = 0
            /\ ProxyStateUnchanged(w)]_vars

\* a worker whose first request was answered 404: the fetch has failed
\* with two attempts left and p1 still its sticky proxy
C14_Witness ==
    \E w \in Workers :
        /\ At(w, "failed")
        /\ loc[w].attempt = 0
        /\ hist[w].outcomes = <<Status(404)>>
        /\ hist[w].fetched = "none"
        /\ current_proxy[w] = "h1:8080:u:w"
        /\ proxy_failure_count[w] = 0

\* the outcomes that are exceptions, and those whose message names the proxy
Exceptions == {o \in Outcomes : o.exc # "-"}
ProxyAttributable(o) == o.exc \in {"ProxyError", "ConnectionError"}

\* the fetch goes on after attempt number loc[w].attempt: its next turn
\* while the budget lasts, else it has returned None
TurnTaken(w) ==
    IF loc[w].attempt + 1 < 3
    THEN loc'[w].pc = "req" /\ loc'[w].attempt = loc[w].attempt + 1
    ELSE loc'[w].pc = "failed" /\ hist'[w].fetched = "none"

\* what the except clause does with an exception of w's request:
\* mark_proxy_failed is called and a proxy re-acquired if and only if the
\* exception's message names ProxyError or ConnectionError; the worker keeps
\* running and sleeps at least 3 s while the budget lasts
ExceptionHandled(w) ==
    \A o \in Exceptions :
        Answered(w, o) =>
          /\ running'[w]
          /\ (hist'[w].mf = hist[w].mf + 1) <=> ProxyAttributable(o)
          /\ (loc'[w].pc = "gp") <=> ProxyAttributable(o)
          /\ Last(hist'[w].waits) >=
                (IF loc[w].attempt + 1 < 3 THEN 3 ELSE 0)
          /\ ~ ProxyAttributable(o) =>
                /\ hist'[w].mf = hist[w].mf
                /\ ProxyStateUnchanged(w)
                /\ TurnTaken(w)

\* the step ends the proxy re-acquisition that the except clause called
HandlerCallEnds(w) ==
    /\ loc[w].pc \in GpPcs
    /\ loc[w].ret = "handler"
    /\ loc'[w].pc \notin GpPcs
    /\ running'[w]

\* C15 as stated: on an exception of a request, mark_proxy_failed is called
\* and a proxy re-acquired if and only if the exception is proxy
\* attributable; in every case the exception is contained in the fetch,
\* which retries while the budget lasts and returns None after the last
\* attempt.  Violated when the re-acquisition raises in the except clause
\* because the client library makes no client: the fetch raises.
C15_Original ==
    [][\A w \in Workers :
          /\ ExceptionHandled(w)
          /\ HandlerCallEnds(w) => TurnTaken(w)]_vars

\* C15, amended: as stated, but for a re-acquisition in which
\* create_proxy_scraper raises: then the exception leaves the fetch for
\* main's handler, the worker sleeps the recovery sleep and is at its next
\* pop, and the word is neither persisted nor pushed again.
C15_ExceptionContained ==
    [][\A w \in Workers :
          /\ ExceptionHandled(w)
          /\ HandlerCallEnds(w) =>
                \/ TurnTaken(w)
                \/ /\ cfg.client_faults
                   /\ ClientRaises(w)
                   /\ UNCHANGED <<word_queue, store>>
          /\ (HandlerCallEnds(w) /\ ~ cfg.client_faults) =>
                TurnTaken(w)]_vars

\* a worker whose third request raised a ProxyError: the proxy was marked
\* and the fetch has returned None
C15_Witness ==
    \E w \in Workers :
        /\ At(w, "failed")
        /\ Len(hist[w].outcomes) = 3
        /\ Last(hist[w].outcomes) = Raised("ProxyError")
        /\ hist[w].mf >= 1
        /\ hist[w].fetched = "none"

\* the step is made by w inside get_working_proxy, called while w has a
\* sticky proxy with fewer than 3 failures
StickyCall(w) ==
    /\ loc[w].pc = "gp"
    /\ loc'[w] # loc[w]
    /\ running'[w]
    /\ current_proxy[w] # None
    /\ proxy_failure_count[w] < 3

\* C16: get_working_proxy called by a worker that has a sticky proxy with
\* a failure counter below 3 returns that proxy at once and changes
\* nothing: both pools, the sticky proxy and the counter are as before.
\* The call returns in its first step; the fetch goes on with the proxy
\* returned, unless the client library then fails to make a client.
C16_StickyReturned ==
    [][\A w \in Workers :
          StickyCall(w) =>
            /\ GpReturns(w) \/ (cfg.client_faults /\ ClientRaises(w))
            /\ GpReturns(w) => loc'[w].proxy_url = current_proxy[w]
            /\ current_proxy'[w] = current_proxy[w]
            /\ proxy_failure_count'[w] = proxy_failure_count[w]
            /\ proxy_queue' = proxy_queue
            /\ proxy_failed' = proxy_failed]_vars

\* a worker retries through its sticky proxy p1, which has failed once,
\* while p2 waits in the active pool
C16_Witness ==
    \E w \in Workers :
        /\ At(w, "req")
        /\ loc[w].attempt = 1
        /\ hist[w].outcomes = <<Status(503)>>
        /\ loc[w].proxy_url = "h1:8080:u:w"
        /\ current_proxy[w] = "h1:8080:u:w"
        /\ proxy_failure_count[w] = 1
        /\ proxy_queue = <<"h2:8080:u:w">>

\* the step is the return of a get_working_proxy call of w that found
\* proxy_queue empty and then proxy_failed empty
FoundBothEmpty(w) ==
    /\ GpReturns(w)
    /\ loc[w].pc = "gp_llen"
    /\ ~ hist'[w].raised

\* what C17 says of such a return: no proxy is returned, the worker has no
\* sticky proxy, and the request that follows is made over a direct
\* connection; the word is not failed for want of a proxy
NoProxyGoesDirect(w) ==
    /\ loc'[w].proxy_url = None
    /\ current_proxy'[w] = None
    /\ loc[w].ret = "start" => loc'[w].pc = "req"
    /\ loc[w].attempt + 1 < 3 => loc'[w].pc = "req"
    /\ loc'[w].pc = "req" => loc'[w].scraper = "direct"

\* C17: a get_working_proxy call that finds both pools empty returns no
\* proxy and leaves no sticky proxy, and the caller fetches over a direct
\* connection.  Violated when the cached scraper of a proxy whose
\* quarantine push raised is used again.
C17_NoProxyGoesDirect ==
    [][\A w \in Workers : FoundBothEmpty(w) => NoProxyGoesDirect(w)]_vars

\* the step appends one or more words at the tail of word_queue
PushesAtTail ==
    /\ Len(word_queue') > Len(word_queue)
    /\ SubSeq(word_queue', 1, Len(word_queue)) = word_queue

\* the step removes the head of word_queue
PopsHead == word_queue # <<>> /\ word_queue' = Tail(word_queue)

\* C18: word_queue changes only by a push, which appends at the tail, and
\* by a pop, which removes the head and hands it to the popping worker;
\* nothing else removes or reorders its items, so the words leave in the
\* order they were pushed.
C18_FifoQueue ==
    [][/\ word_queue' # word_queue => PushesAtTail \/ PopsHead
       /\ PushesAtTail =>
             \E w \in Workers :
                 /\ loc[w].pc \in {"failed", "ex_push"}
                 /\ loc'[w] # loc[w]
       /\ \A w \in Workers :
             (loc[w].pc = "pop" /\ loc'[w].pc = "gp") =>
                 /\ PopsHead
                 /\ loc'[w].word = Head(word_queue)]_vars

\* glad, pushed before joyful by the expander, is the first to be popped
C18_Witness ==
    \E w \in Workers :
        /\ cfg.workers = {w}
        /\ At(w, "gp")
        /\ loc[w].word = glad
        /\ hist[w].from.queue = <<glad, joyful>>
        /\ word_queue = <<joyful>>

\* a term in the normalized form C19 describes: lowercase, no leading or
\* trailing whitespace, one separator (hyphen and space not both), at least
\* two characters, letters and separators only
NormalTerm(t) ==
    /\ lower(t) = t
    /\ strip(t) = t
    /\ ~ ("-" \in Range(t) /\ " " \in Range(t))
    /\ Len(t) >= 2
    /\ \A i \in 1..Len(t) : IsAlphaChar(t[i]) \/ t[i] \in {" ", "-"}

\* C19: every term the expander pushes is in normalized form.  Violated by
\* a synonym with a leading hyphen: it is stripped before the hyphen is
\* made a blank, and pushed with a leading blank.
C19_PushedNormalized ==
    [][\A w \in Workers :
          ExpanderPushes(w) =>
            \A i \in 1..Len(loc[w].words_to_add) :
                NormalTerm(loc[w].words_to_add[i])]_vars

\* the Term of a string: case, surrounding whitespace and the choice between
\* hyphen and blank set aside
TermOf(t) == replace(strip(lower(t)), "-", " ")

\* C20: the expander never pushes a candidate whose Term is in the snapshot
\* of word_queue it read at the start of the expansion.  Violated: the
\* snapshot holds the queue's strings as they are and the candidate is
\* compared in its cleaned form, so "glad" is pushed while "Glad" waits.
C20_NeverPushQueued ==
    [][\A w \in Workers :
          ExpanderPushes(w) =>
            \A i \in 1..Len(loc[w].words_to_add) :
                \A q \in loc[w].queue_words :
                    TermOf(q) # TermOf(loc[w].words_to_add[i])]_vars

\* the control points inside process_synonyms_for_new_words
ExPcs == {"ex_snap", "ex_check", "ex_push"}

\* the cleaned synonyms of a lemma
CleanSynonyms(lemma) ==
    {clean_synonym(lemma.synonyms[j]) : j \in 1..Len(lemma.synonyms)}

\* C21: the expander is entered only by the step that inserted a lemma
\* into the collection, for that lemma, and stays with it; an insert that
\* failed pushes nothing and starts no expansion; whatever is pushed comes
\* from the synonyms of the lemma just inserted.
C21_ExpandAfterInsert ==
    [][\A w \in Workers :
          /\ (loc[w].pc \notin ExPcs /\ loc'[w].pc \in ExPcs) =>
                /\ loc[w].pc = "insert"
                /\ store' = Append(store, loc[w].lemmas[loc[w].li])
                /\ loc'[w].lemmas = loc[w].lemmas
                /\ loc'[w].li = loc[w].li
          /\ (loc[w].pc \in ExPcs /\ loc'[w].pc \in ExPcs) =>
                /\ loc'[w].lemmas = loc[w].lemmas
                /\ loc'[w].li = loc[w].li
          /\ (InsertCall(w) /\ store' = store) =>
                /\ loc'[w].pc \notin ExPcs
                /\ word_queue' = word_queue
          /\ ExpanderPushes(w) =>
                \A i \in 1..Len(loc[w].words_to_add) :
                    loc[w].words_to_add[i] \in
                        CleanSynonyms(loc[w].lemmas[loc[w].li])]_vars

\* the first sense of a page failed to insert, the second was inserted and
\* its batch is about to be pushed
C21_Witness ==
    \E w \in Workers :
        /\ At(w, "ex_push")
        /\ loc[w].li = 2
        /\ hist[w].persisted = 1
        /\ store = <<loc[w].lemmas[2]>>
        /\ loc[w].words_to_add # <<>>

\* the step is a call of safe_insert_lemma by w that reports failure
InsertFails(w) == InsertCall(w) /\ store' = store

\* C22: an insert that fails leaves the collection and the queue as they
\* are and fails for its lemma only: the loop goes to the next lemma of the
\* word if there is one, else the worker is at the closing statistics of
\* its iteration, still running; the lemma loop never takes a lemma again.
C22_FailedInsertOnly ==
    [][\A w \in Workers :
          /\ InsertFails(w) =>
                /\ word_queue' = word_queue
                /\ running'[w]
                /\ IF loc[w].li < Len(loc[w].lemmas)
                   THEN /\ loc'[w].pc = "insert"
                        /\ loc'[w].lemmas = loc[w].lemmas
                        /\ loc'[w].li = loc[w].li + 1
                        /\ hist'[w].persisted = hist[w].persisted
                   ELSE loc'[w].pc = "stats"
          /\ (/\ loc[w].pc \in ExPcs \cup {"insert"}
              /\ loc'[w] # loc[w]
              /\ loc'[w].pc = "insert") => loc'[w].li = loc[w].li + 1]_vars

\* the first lemma of a word failed to insert and the second is next
C22_Witness ==
    \E w \in Workers :
        /\ At(w, "insert")
        /\ loc[w].li = 2
        /\ hist[w].persisted = 0
        /\ store = <<>>

\* C23: the check and the push are separate steps.  A push appends the
\* batch decided from the earlier snapshot and store checks, whatever the
\* queue holds by then; only a worker that is alone, with stores that
\* answer, is sure to push no term that is in the queue at its push.  With
\* two workers the race is reachable (C23_Witness).
C23_CheckThenPush ==
    [][\A w \in Workers :
          ExpanderPushes(w) =>
            /\ word_queue' = word_queue \o loc[w].words_to_add
            /\ (cfg.workers = {w} /\ ~ cfg.faults) =>
                  \A i \in 1..Len(loc[w].words_to_add) :
                      loc[w].words_to_add[i] \notin Range(word_queue)]_vars

\* two workers fetched happy, both stored its Entry, both passed the
\* snapshot and store checks for glad and joyful, and both pushed them
C23_Witness ==
    /\ cfg.workers = Workers
    /\ store = <<HappyEntry, HappyEntry>>
    /\ word_queue = <<glad, joyful, glad, joyful>>

\* the control points of main's loop
LoopPcs ==
    {"pop", "req", "failed", "insert", "stats", "stats_failed"}
        \cup GpPcs \cup ExPcs

\* the step is one of w in which a command of get_working_proxy or of
\* mark_proxy_failed raised
PoolRaises(w) == hist'[w].raised /\ hist'[w] # hist[w]

\* the step is one of w after which main's handler has slept
Recovers(w) == hist'[w].sleep = "recovery" /\ hist'[w] # hist[w]

\* C24 as stated: whatever raises in an iteration, the worker sleeps the
\* recovery sleep and goes to its next pop.  Violated by an insert that
\* fails: safe_insert_lemma reports it and the iteration goes on.
C24_Original ==
    [][\A w \in Workers :
          (InsertFails(w) \/ PoolRaises(w)) =>
            /\ running'[w]
            /\ loc'[w].pc = "pop"
            /\ hist'[w].sleep = "recovery"]_vars

\* C24, amended: a started worker stops only by the signal's step, which
\* touches neither queue, pools nor collection; an error of an insert or of
\* a proxy-pool command is handled where it happens and the iteration goes
\* on; the recovery sleep is taken exactly for what reaches main's
\* handler: the pop, the re-push, and a create_proxy_scraper that raised
\* because the client library could make no client, called at the start of
\* the fetch or in its except clause.  The worker is then at its next pop
\* with queue and collection as they were, and the pools too but for the
\* proxy the raising call has just acquired.
C24_OnlySignalStops ==
    [][\A w \in Workers :
          /\ running[w] => loc[w].pc \in LoopPcs
          /\ (running[w] /\ ~ running'[w]) =>
                /\ loc'[w].pc = "exited"
                /\ UNCHANGED shared
          /\ (InsertFails(w) \/ PoolRaises(w)) =>
                /\ running'[w]
                /\ loc'[w].pc \in LoopPcs
                /\ hist'[w].sleep # "recovery"
          /\ Recovers(w) =>
                /\ loc[w].pc \in {"pop", "failed"} \cup GpPcs
                /\ running'[w]
                /\ loc'[w].pc = "pop"
                /\ UNCHANGED <<word_queue, store>>
                /\ loc[w].pc \in {"pop", "failed"} => UNCHANGED shared
                /\ loc[w].pc \in GpPcs =>
                      /\ cfg.client_faults
                      /\ loc[w].ret \in {"start", "handler"}
                      /\ scraper_instance'[w] = scraper_instance[w]
                      /\ proxy_failed' = proxy_failed
                      /\ \/ proxy_queue' = proxy_queue
                         \/ /\ proxy_queue # <<>>
                            /\ proxy_queue' = Tail(proxy_queue)]_vars

\* a worker back at its pop after the recovery sleep, having fetched
\* through a proxy that failed before
C24_Witness ==
    \E w \in Workers :
        /\ At(w, "pop")
        /\ hist[w].sleep = "recovery"
        /\ proxy_failure_count[w] >= 1
        /\ word_queue = <<>>

\* C25: the step in which the signal handler closes the store client ends
\* the worker and writes to no queue, pool or collection, and a worker whose
\* handler has run takes no further step that writes.  Violated when the
\* signal arrives inside get_proxy_stats: the bare except swallows the
\* exit, the worker stays in its loop and pops the next word.
C25_SignalStopsWrites ==
    [][\A w \in cfg.workers :
          /\ (mongo_open[w] /\ ~ mongo_open'[w]) =>
                /\ ~ running'[w]
                /\ UNCHANGED shared
          /\ (~ mongo_open[w] /\ loc'[w] # loc[w]) => UNCHANGED shared]_vars

\* C26: every step leaves the documents of the collection where and as
\* they are; the collection changes only by a worker's insert, which
\* appends its lemma; with a store that answers, the insert of a lemma
\* whose term already has documents adds one more.
C26_StoreGrows ==
    [][/\ Len(store') >= Len(store)
       /\ SubSeq(store', 1, Len(store)) = store
       /\ store' # store =>
             \E w \in Workers :
                 /\ InsertCall(w)
                 /\ store' = Append(store, loc[w].lemmas[loc[w].li])
       /\ \A w \in Workers :
             (/\ InsertCall(w)
              /\ ~ cfg.faults
              /\ mongo_open[w]
              /\ \E i \in 1..Len(store) :
                    store[i].term = loc[w].lemmas[loc[w].li].term) =>
                store' = Append(store, loc[w].lemmas[loc[w].li])]_vars

\* a worker popped happy when the collection already held its Entry, and
\* has just inserted the Entry again
C26_Witness ==
    \E w \in Workers :
        /\ At(w, "ex_snap")
        /\ loc[w].word = happy
        /\ hist[w].from.store = <<HappyEntry>>
        /\ store = <<HappyEntry, HappyEntry>>

\* the step is one of w inside get_proxy_stats that leaves it running
StatsStep(w) ==
    loc[w].pc \in {"stats", "stats_failed"} /\ loc'[w] # loc[w] /\ running'[w]

\* C27: get_proxy_stats answers (llen proxy_queue, llen proxy_failed), each
\* length as its read found it, or (0, 0) when a read failed; with Redis
\* answering and no signal it is the lengths; nothing raised leaves the
\* call, and no step of it changes a pool, the queue, the collection or the
\* worker's proxy state.
C27_StatsNeverRaises ==
    [][\A w \in Workers :
          StatsStep(w) =>
            /\ UNCHANGED <<shared, globals, consecutive_empty, sticky>>
            /\ loc[w].pc = "stats" =>
                  \/ /\ loc'[w].pc = "stats_failed"
                     /\ loc'[w].available = Len(proxy_queue)
                  \/ /\ loc'[w].pc = "pop"
                     /\ hist'[w].stats = <<0, 0>>
                     /\ cfg.faults \/ ~ mongo_open'[w]
            /\ loc[w].pc = "stats_failed" =>
                  /\ loc'[w].pc = "pop"
                  /\ hist'[w].stats \in
                        {<<loc[w].available, Len(proxy_failed)>>, <<0, 0>>}
                  /\ (~ cfg.faults /\ mongo_open'[w]) =>
                        hist'[w].stats =
                            <<loc[w].available, Len(proxy_failed)>>]_vars

\* the statistics of a worker whose first proxy is quarantined
C27_Witness ==
    \E w \in Workers :
        /\ At(w, "pop")
        /\ hist[w].stats = <<Len(proxy_queue), Len(proxy_failed)>>
        /\ proxy_failed = <<"h1:8080:u:w">>

\* the proxy lines of a file: blank lines and lines beginning with # left
\* out, the others without their surrounding blanks, in file order
RECURSIVE ProxyLines(_)
ProxyLines(lines) ==
    IF lines = <<>> THEN <<>>
    ELSE (IF strip(Head(lines)) = <<>> \/ Head(Head(lines)) = "#"
          THEN <<>> ELSE <<strip(Head(lines))>>) \o ProxyLines(Tail(lines))

\* the paths of the bootstrap that hold a file, and those with a proxy line
FoundPaths == {i \in 1..BootPaths : cfg.paths[i].exists}
LoadablePaths == {i \in FoundPaths : ProxyLines(cfg.paths[i].lines) # <<>>}

Least(S) == CHOOSE i \in S : \A j \in S : i <= j

\* C28 as stated: once the bootstrap is over, proxy_queue holds exactly the
\* proxy lines of the file in file order and proxy_failed is empty,
\* whatever the lists held before.  Violated by a file without a proxy
\* line: nothing is deleted and the lists stay as they were.
C28_Original ==
    (loc.pc = "done" /\ FoundPaths # {}) =>
        /\ proxy_queue = ProxyLines(cfg.paths[Least(FoundPaths)].lines)
        /\ proxy_failed = <<>>

\* C28, amended: a bootstrap that returns True has loaded a file with at
\* least one proxy line: proxy_queue holds exactly that file's proxy lines
\* in file order and proxy_failed is empty, whatever the lists held before;
\* if no command raised, the file is that of the first path with a proxy
\* line.  A bootstrap that returns False without a command having raised
\* found no proxy line on any path and left both lists as they were.
C28_BootstrapLoads ==
    loc.pc = "done" =>
        /\ loc.ret = "True" =>
              /\ \E i \in LoadablePaths :
                    proxy_queue = ProxyLines(cfg.paths[i].lines)
              /\ proxy_failed = <<>>
              /\ ~ hist.raised =>
                    proxy_queue =
                        ProxyLines(cfg.paths[Least(LoadablePaths)].lines)
        /\ (loc.ret = "False" /\ ~ hist.raised) =>
              /\ LoadablePaths = {}
              /\ proxy_queue = hist.queue
              /\ proxy_failed = hist.failed

\* a bootstrap over lists that both held an old proxy has loaded a file of
\* a padded proxy line and an indented comment
C28_Witness ==
    /\ loc.pc = "done"
    /\ loc.ret = "True"
    /\ hist.queue # <<>>
    /\ hist.failed # <<>>
    /\ cfg.paths[1] = File(<<PaddedLine, IndentedComment>>)
    /\ proxy_queue = << <<"d">>, <<"#">> >>
    /\ proxy_failed = <<>>

\* C29: the counter of w changes only at its pop (or is dropped with the
\* process).  An empty pop raises it by one, leaves queue, pools and
\* collection unchanged, and is followed by the short sleep while the new
\* count is below 5 and by the longer sleep, after the pool statistics,
\* from the 5th on; a pop that returns a word sets it to 0, skipped word
\* included.
C29_EmptyPolls ==
    [][\A w \in Workers :
          /\ consecutive_empty'[w] # consecutive_empty[w] =>
                \/ ~ running'[w]
                \/ /\ loc[w].pc = "pop"
                   /\ word_queue = <<>>
                   /\ UNCHANGED shared
                   /\ consecutive_empty'[w] = consecutive_empty[w] + 1
                   /\ IF consecutive_empty'[w] >= 5
                      THEN hist'[w].sleep = "long" /\ loc'[w].pc = "stats"
                      ELSE hist'[w].sleep = "short" /\ loc'[w].pc = "pop"
                \/ /\ loc[w].pc = "pop"
                   /\ word_queue # <<>>
                   /\ word_queue' = Tail(word_queue)
                   /\ consecutive_empty'[w] = 0
          /\ (loc[w].pc = "pop" /\ loc'[w].pc = "gp") =>
                consecutive_empty'[w] = 0
          /\ (/\ cfg.workers = {w}
              /\ loc[w].pc = "pop"
              /\ word_queue' # word_queue) => consecutive_empty'[w] = 0
          /\ (/\ At(w, "pop")
              /\ word_queue = <<>>
              /\ hist'[w] # hist[w]
              /\ running'[w]
              /\ hist'[w].sleep # "recovery") =>
                consecutive_empty'[w] = consecutive_empty[w] + 1]_vars

\* the 5th consecutive empty poll: the longer sleep is ahead
C29_Witness ==
    \E w \in Workers :
        /\ At(w, "stats")
        /\ consecutive_empty[w] = 5
        /\ hist[w].sleep = "long"
        /\ word_queue = <<>>

\* the step removes a word from word_queue and no worker takes it up: a
\* random skip
SkipStep == loc' = loc /\ word_queue' # word_queue

\* C30: a step that changes word_queue with no worker moving on is the pop
\* of a skipped word.  It removes the head and nothing else; pools,
\* collection and every worker's proxy state are unchanged; the skipping
\* worker is at its pop with no word in hand and nothing fetched, so the
\* word is neither fetched, persisted nor pushed back.
C30_SkipDestroys ==
    [][SkipStep =>
          /\ word_queue # <<>>
          /\ word_queue' = Tail(word_queue)
          /\ UNCHANGED <<proxy_queue, proxy_failed, store, globals, sticky,
                         process>>
          /\ \E w \in Workers :
                /\ At(w, "pop")
                /\ loc'[w] = IdleLoc
                /\ hist'[w] = NoHist
                /\ consecutive_empty'[w] = 0]_vars

\* the only word of the queue was skipped by the only worker: nothing was
\* fetched, no proxy taken, nothing stored
C30_Witness ==
    \E w \in Workers :
        /\ cfg.workers = {w}
        /\ cfg.seed = <<happy>>
        /\ cfg.proxies # <<>>
        /\ At(w, "pop")
        /\ hist[w] = NoHist
        /\ word_queue = <<>>
        /\ store = <<>>
        /\ proxy_queue = cfg.proxies
        /\ current_proxy[w] = None

\* the number of sticky slots holding p
StickySlots(p) == Cardinality({w \in Workers : current_proxy[w] = p})

\* C31: with proxies of distinct addresses bootstrapped once and stores that
\* do not raise, at every state each proxy occurs at most once across the
\* active pool, the quarantine pool and the workers' sticky slots, and no
\* two workers hold the same sticky proxy.
C31_NoProxyDuplicated ==
    ~ cfg.faults =>
        /\ \A p \in Proxies :
              Occurrences(proxy_queue, p) + Occurrences(proxy_failed, p)
                  + StickySlots(p) <= 1
        /\ \A v, w \in Workers :
              v # w /\ current_proxy[v] # None
                  => current_proxy[v] # current_proxy[w]

\* worker 1 has quarantined p1 with its third 503 and worker 2, which was
\* on a direct connection, has recycled it and holds it
C31_Witness ==
    /\ cfg.workers = Workers
    /\ ~ cfg.faults
    /\ At(1, "failed")
    /\ hist[1].mf = 3
    /\ current_proxy[1] = None
    /\ current_proxy[2] = "h1:8080:u:w"
    /\ proxy_queue = <<>>
    /\ proxy_failed = <<>>

\* the step is a pop by w that returned a word the worker goes on with
PopReturns(w) == loc[w].pc = "pop" /\ loc'[w].pc = "gp"

\* the workers with a popped word in hand
InHand == {w \in Workers : loc[w].word # NoWord}

\* C32: under any interleaving of pops by several workers each item of the
\* frontier queue is returned to at most one worker: a pop that returns a
\* word returns the head and removes that one item from the queue in the
\* same step, and returns nothing to any other worker; where no page has a
\* synonym to push, the items in the queue and in the workers' hands never
\* outnumber the seeded ones.
C32_PopOnce ==
    [][/\ \A w \in Workers :
            PopReturns(w) =>
                /\ word_queue # <<>>
                /\ loc'[w].word = Head(word_queue)
                /\ word_queue' = Tail(word_queue)
                /\ \A v \in Workers \ {w} : loc'[v] = loc[v]
       /\ cfg.pages = {PageNone} =>
            Len(word_queue') + Cardinality(InHand') <= Len(cfg.seed)]_vars

\* two workers each fetch one of the two seeded items and the queue is empty
C32_Witness ==
    /\ cfg.workers = Workers
    /\ At(1, "req")
    /\ At(2, "req")
    /\ loc[1].word = happy
    /\ loc[2].word = happy
    /\ word_queue = <<>>
    /\ cfg.seed = <<happy, happy>>

\* C33: with stores that do not raise, after every call of
\* get_working_proxy or mark_proxy_failed the worker's failure counter is
\* in 0..2, and it is 0 whenever the worker has no sticky proxy.
C33_CounterRange ==
    ~ cfg.faults =>
        \A w \in Workers :
            /\ proxy_failure_count[w] \in 0 .. (MAX_PROXY_FAILURES - 1)
            /\ current_proxy[w] = None => proxy_failure_count[w] = 0

\* a worker whose sticky proxy has failed twice is about to call
\* get_working_proxy again
C33_Witness ==
    \E w \in Workers :
        /\ ~ cfg.faults
        /\ At(w, "gp")
        /\ hist[w].mf = 2
        /\ current_proxy[w] = "h1:8080:u:w"
        /\ proxy_failure_count[w] = 2

\* the step is a fetch of w answered with 200: on to the insert loop, or the
\* iteration ends on a page without entry
Succeeds(w) == loc[w].pc = "req" /\ loc'[w].pc \in {"insert", "pop"}

\* the step assigns w the proxy it pops from the active pool
Assigned(w) ==
    /\ proxy_queue # <<>>
    /\ proxy_queue' = Tail(proxy_queue)
    /\ current_proxy'[w] = Head(proxy_queue)

\* C34: a fetch answered with 200 leaves the worker's sticky proxy and its
\* failure counter unchanged; the counter of a worker that goes on running
\* goes back to 0 only in a step that assigns the worker a proxy or
\* quarantines its sticky proxy, and
\* otherwise changes only by a call of mark_proxy_failed adding 1 for the
\* same sticky proxy, so failures accumulate over attempts and terms.
C34_SuccessKeepsCount ==
    [][\A w \in Workers :
          /\ Succeeds(w) =>
                /\ current_proxy'[w] = current_proxy[w]
                /\ proxy_failure_count'[w] = proxy_failure_count[w]
          /\ (/\ running'[w]
              /\ proxy_failure_count[w] # 0
              /\ proxy_failure_count'[w] = 0) =>
                \/ Assigned(w)
                \/ /\ current_proxy[w] # None
                   /\ Quarantines(w)
                   /\ current_proxy'[w] = None
          /\ (proxy_failure_count'[w] # proxy_failure_count[w]
                /\ proxy_failure_count'[w] # 0) =>
                /\ MarkCall(w)
                /\ current_proxy[w] # None
                /\ current_proxy'[w] = current_proxy[w]
                /\ proxy_failure_count'[w] = proxy_failure_count[w] + 1]_vars

\* a worker on p1 got 503, then 200: it goes on to insert with the failure
\* still counted
C34_Witness ==
    \E w \in Workers :
        /\ At(w, "insert")
        /\ hist[w].outcomes = <<Status(503), Status(200)>>
        /\ current_proxy[w] = "h1:8080:u:w"
        /\ proxy_failure_count[w] = 1

\* the client C35 expects of a worker whose sticky proxy is p: one set to
\* p, a direct connection without a sticky proxy
ClientFor(p) == IF p = None THEN "direct" ELSE p

\* C35: whenever a worker issues a fetch request, the cached client it uses
\* is configured for the worker's sticky proxy, and is a direct connection
\* only when the worker has none.  Violated by a worker that made its client
\* while no proxy was to be had and then acquired one: the client is reused;
\* and by a sticky proxy whose line lacks fields: its client is direct.
C35_ClientMatchesProxy ==
    \A w \in Workers :
        At(w, "req") => loc[w].scraper = ClientFor(current_proxy[w])

\* C36: each expansion of one lemma's synonym list makes at most one push,
\* and the pushed batch never holds the same term twice.  Violated: the
\* candidates are compared with the queue snapshot and the collection, not
\* with each other, so two synonyms that clean to one term are both pushed.
C36_BatchDistinct ==
    [][\A w \in Workers :
          ExpanderPushes(w) =>
            /\ word_queue' = word_queue \o loc[w].words_to_add
            /\ loc'[w].pc \notin ExPcs
            /\ \A i, j \in 1..Len(loc[w].words_to_add) :
                  i # j => loc[w].words_to_add[i] # loc[w].words_to_add[j]]_vars

\* w's call of get_working_proxy has returned; its last mark_proxy_failed
\* quarantined a proxy
AfterQuarantine(w) ==
    loc[w].pc \in {"req", "failed"} /\ hist[w].quarantined # None

\* C37 as stated: the proxy a worker has just quarantined is not handed back
\* to it by its immediately following call of get_working_proxy.  Violated
\* when the active pool is empty: the call recycles the quarantine pool and
\* pops the proxy it has just put there.
C37_Original ==
    \A w \in Workers :
        AfterQuarantine(w) => loc[w].proxy_url # hist[w].quarantined

\* C37, amended: the call of get_working_proxy that follows a quarantine
\* hands the quarantined proxy back only when the quarantine pool was
\* recycled in between, and then by popping it from the active pool: the
\* recycle is the call's own, made on finding the active pool empty, or
\* another worker's.  In every other case the call returns a different
\* proxy or none; with none, the client made for the next request is a
\* direct one.
C37_HandedBackByRecycle ==
    [][\A w \in Workers :
          ((GpReturns(w) \/ ClientRaises(w)) /\ hist[w].quarantined # None) =>
            LET p == hist[w].quarantined
                u == current_proxy'[w]
            IN  /\ GpReturns(w) => loc'[w].proxy_url = u
                /\ u = p =>
                      /\ hist[w].recycled # 0
                      /\ loc[w].pc \in {"gp", "gp_retry"}
                      /\ loc[w].pc = "gp" => hist[w].recycled # w
                      /\ proxy_queue # <<>>
                      /\ u = Head(proxy_queue)
                      /\ proxy_queue' = Tail(proxy_queue)
                /\ (GpReturns(w) /\ u = None /\ scraper_instance'[w] # None)
                      => loc'[w].scraper = "direct"]_vars

\* a worker is about to fetch through the proxy it quarantined in its last
\* attempt: the other worker recycled it, and the worker's call popped it
\* from the active pool
C37_Witness ==
    \E w \in Workers :
        /\ At(w, "req")
        /\ hist[w].quarantined # None
        /\ loc[w].proxy_url = hist[w].quarantined
        /\ current_proxy[w] = hist[w].quarantined
        /\ hist[w].recycled \notin {0, w}

\* every fetch of the deployment fails: no request is answered with 200
FetchFails == Status(200) \notin cfg.outcomes

\* the copies of the term t in the queue, and those in workers' hands
QueueCopies(t) == Occurrences(word_queue, t)
Copies(t) == QueueCopies(t) + Cardinality({w \in Workers : loc[w].word = t})

\* every started worker has been shut down
Stopped == \A w \in cfg.workers : ~ running[w]

\* C38: a term whose every fetch fails does not circulate forever: with
\* workers that are scheduled and a fair draw between giving up and
\* re-pushing, it is eventually in no queue and in no worker's hand (unless
\* every worker is shut down first); and while it circulates no iteration
\* adds to its copies: a pop takes one copy from the queue, the iteration
\* that popped it puts back at most that one, at the tail, and the copies
\* in the queue and in hands never grow in number.
C38_NoEndlessCirculation ==
    /\ (FetchFails /\ Copies(happy) > 0) ~> (Copies(happy) = 0 \/ Stopped)
    /\ [][FetchFails =>
            /\ Copies(happy)' <= Copies(happy)
            /\ QueueCopies(happy)' > QueueCopies(happy) =>
                  \E w \in Workers :
                      /\ loc[w].pc = "failed"
                      /\ loc[w].word = happy
                      /\ loc'[w].word = NoWord
                      /\ word_queue' = Append(word_queue, happy)]_vars

\* both copies of the failing term have been popped, one of them re-pushed
\* by worker 1 after three failed attempts, the other is in worker 2's hand
C38_Witness ==
    /\ FetchFails
    /\ cfg.workers = Workers
    /\ word_queue = <<happy>>
    /\ At(1, "pop")
    /\ At(2, "failed")
    /\ loc[2].word = happy
    /\ Len(hist[2].outcomes) = max_retries

\* w polls the empty queue: it holds no word and is at its pop, or in the
\* statistics it prints before the longer sleep
IdlePolling(w) ==
    loc[w].word = NoWord /\ loc[w].pc \in {"pop", "stats", "stats_failed"}

\* the queue is empty and every running worker polls it
Quiescent ==
    word_queue = <<>> /\ \A w \in cfg.workers : running[w] => IdlePolling(w)

\* a running worker stands at an insert_one that would add a document to a
\* collection of MaxStore documents: the run leaves the runs explored
Outgrown ==
    \E w \in cfg.workers :
        running[w] /\ At(w, "insert") /\ Len(store) >= MaxStore

====
